---------------------------- MODULE Spec2Model ----------------------------
(***************************************************************************)
(* Model of the speech-recognition module: the Recognition Session         *)
(* (SpeechRecognitionService), the Dictation Controller                    *)
(* (SpeechToTextModule) and the host they run on (the recognition engine,  *)
(* window timers, the microphone permission prompt).                       *)
(*                                                                         *)
(* Strings are sequences of UTF-16 code units, so that toLowerCase,        *)
(* startsWith, includes, substring, trim and the regular-expression        *)
(* replacements of the source are computed character by character.         *)
(***************************************************************************)
EXTENDS Integers, Sequences, FiniteSets, TLC

(***************************************************************************)
(* Bounds of the model.                                                    *)
(***************************************************************************)
MaxResults == 1      \* final results the engine delivers in one behaviour
MaxDictated == 2     \* the same, in the dictation scenario
MaxErrors == 1       \* entries of status.errors in one behaviour
MaxSessions == 2     \* SpeechRecognitionService instances constructed
MaxCalls == 2        \* async initialize()/startListening() calls in flight
MaxListeners == 1    \* callbacks registered per Controller list
MaxDestroys == 2     \* destroy() calls in one behaviour
MaxOverlapErrors == 1     \* the same three, in the overlap scenario
MaxOverlapSessions == 2
MaxOverlapDestroys == 1
MaxLogged == 2            \* the same three, in the observer scenario
MaxObservedSessions == 2
MaxObservedDestroys == 1
MaxSnapshots == 1    \* getStatus() snapshots the application keeps
MaxPhrases == 2      \* results delivered in the demo scenario
MaxCleaned == 1      \* results delivered in the cleaning scenario
MaxRepeated == 2     \* results delivered in the repetition scenario

(***************************************************************************)
(* Program constants.                                                      *)
(***************************************************************************)
DEBOUNCE_DELAY == 300
SuppressDelta == 10
Tick == DEBOUNCE_DELAY \div 2   \* granularity of the passage of time, ms

(***************************************************************************)
(* Text: code units and the String.prototype methods the source uses.      *)
(***************************************************************************)
\* "Привет как дела"
T_PrivetKakDela == <<1055, 1088, 1080, 1074, 1077, 1090, 32, 1082, 1072, 1082, 32, 1076, 1077, 1083, 1072>>
\* "привет как дела сегодня"
T_PrivetKakDelaSegodnya == <<1087, 1088, 1080, 1074, 1077, 1090, 32, 1082, 1072, 1082, 32, 1076, 1077, 1083, 1072, 32, 1089, 1077, 1075, 1086, 1076, 1085, 1103>>
\* "Привет"
T_Privet == <<1055, 1088, 1080, 1074, 1077, 1090>>
\* " Как дела " (engines deliver transcripts with surrounding blanks)
T_KakDela == <<32, 1050, 1072, 1082, 32, 1076, 1077, 1083, 1072, 32>>
\* "скажи мне сколько будет два плюс два"
T_SkazhiMneSkolko == <<1089, 1082, 1072, 1078, 1080, 32, 1084, 1085, 1077, 32, 1089, 1082, 1086, 1083, 1100, 1082, 1086, 32, 1073, 1091, 1076, 1077, 1090, 32, 1076, 1074, 1072, 32, 1087, 1083, 1102, 1089, 32, 1076, 1074, 1072>>
\* "сделай громче"
T_SdelajGromche == <<1089, 1076, 1077, 1083, 1072, 1081, 32, 1075, 1088, 1086, 1084, 1095, 1077>>

\* the literals of cleanText
L_skazhi_mne == <<1089, 1082, 1072, 1078, 1080, 32, 1084, 1085, 1077>>
L_skazhi == <<1089, 1082, 1072, 1078, 1080>>
L_mne == <<1084, 1085, 1077>>
L_pochemu == <<1087, 1086, 1095, 1077, 1084, 1091>>
L_zachem == <<1079, 1072, 1095, 1077, 1084>>
L_kak == <<1082, 1072, 1082>>
L_skolko == <<1089, 1082, 1086, 1083, 1100, 1082, 1086>>
L_kto == <<1082, 1090, 1086>>
L_chto == <<1095, 1090, 1086>>
L_gde == <<1075, 1076, 1077>>
L_kogda == <<1082, 1086, 1075, 1076, 1072>>
L_sdelaj == <<1089, 1076, 1077, 1083, 1072, 1081>>
L_otkroj == <<1086, 1090, 1082, 1088, 1086, 1081>>
L_zakroj == <<1079, 1072, 1082, 1088, 1086, 1081>>
L_vklyuchi == <<1074, 1082, 1083, 1102, 1095, 1080>>
L_pozhalujsta == <<1087, 1086, 1078, 1072, 1083, 1091, 1081, 1089, 1090, 1072>>
L_ah == <<1072, 1093>>
L_oh == <<1086, 1093>>
L_ura == <<1091, 1088, 1072>>

\* "сделай как"
T_SdelajKak == <<1089, 1076, 1077, 1083, 1072, 1081, 32, 1082, 1072, 1082>>
\* "Привет!"
T_PrivetExcl == <<1055, 1088, 1080, 1074, 1077, 1090, 33>>

\* the character classes of the regular expressions
PunctChars == {46, 44, 33, 63, 59, 58}           \* [.,!?;:]
TerminalChars == {46, 33, 63}                    \* [.!?]
SpaceChars == {9, 10, 11, 12, 13, 32, 160}       \* \s
LineTerminators == {10, 13, 8232, 8233}          \* what . does not match

\* String.prototype.toLowerCase / toUpperCase on one code unit
\* (Latin A-Z, Cyrillic U+0410..U+042F and U+0401; identity elsewhere)
lowerChar(c) ==
  IF c \in 65..90 \/ c \in 1040..1071 THEN c + 32
  ELSE IF c = 1025 THEN 1105
  ELSE c

upperChar(c) ==
  IF c \in 97..122 \/ c \in 1072..1103 THEN c - 32
  ELSE IF c = 1105 THEN 1025
  ELSE c

toLowerCase(s) == [i \in 1..Len(s) |-> lowerChar(s[i])]

startsWith(s, p) == Len(s) >= Len(p) /\ SubSeq(s, 1, Len(p)) = p

includes(s, p) ==
  \E i \in 0..(Len(s) - Len(p)) : SubSeq(s, i + 1, i + Len(p)) = p

\* s.substring(n)
substring(s, n) == IF n >= Len(s) THEN <<>> ELSE SubSeq(s, n + 1, Len(s))

RECURSIVE trimStart(_)
trimStart(s) ==
  IF s # <<>> /\ Head(s) \in SpaceChars THEN trimStart(Tail(s)) ELSE s

RECURSIVE trimEnd(_)
trimEnd(s) ==
  IF s # <<>> /\ s[Len(s)] \in SpaceChars
  THEN trimEnd(SubSeq(s, 1, Len(s) - 1))
  ELSE s

trim(s) == trimEnd(trimStart(s))

\* s.replace(/[.,!?;:]/g, '')
stripPunct(s) == SelectSeq(s, LAMBDA c : c \notin PunctChars)

\* s.replace(/\s+/g, ' ')
RECURSIVE collapseSpaces(_)
collapseSpaces(s) ==
  IF s = <<>> THEN <<>>
  ELSE IF Head(s) \in SpaceChars
       THEN <<32>> \o collapseSpaces(trimStart(s))
       ELSE <<Head(s)>> \o collapseSpaces(Tail(s))

\* /[.!?]$/.test(s)
endsWithTerminal(s) == s # <<>> /\ s[Len(s)] \in TerminalChars

\* s.replace(/^./, char => char.toUpperCase())
capitalizeFirst(s) ==
  IF s # <<>> /\ s[1] \notin LineTerminators
  THEN <<upperChar(s[1])>> \o Tail(s)
  ELSE s

(***************************************************************************)
(* Result Normalizer.                                                      *)
(***************************************************************************)
normalizeTextOf(text) == trim(collapseSpaces(stripPunct(toLowerCase(text))))

stripLeadIn(text) ==
  IF startsWith(toLowerCase(text), L_skazhi_mne) THEN substring(text, 9)
  ELSE IF startsWith(toLowerCase(text), L_skazhi) THEN substring(text, 6)
  ELSE IF startsWith(toLowerCase(text), L_mne) THEN substring(text, 4)
  ELSE text

isQuestion(cleaned) ==
  LET low == toLowerCase(cleaned) IN
    \/ includes(low, L_pochemu)
    \/ includes(low, L_zachem)
    \/ includes(low, L_kak)
    \/ includes(low, L_skolko)
    \/ startsWith(low, L_kto)
    \/ startsWith(low, L_chto)
    \/ startsWith(low, L_gde)
    \/ startsWith(low, L_kogda)

isExclamation(cleaned) ==
  LET low == toLowerCase(cleaned) IN
    \/ startsWith(low, L_sdelaj)
    \/ startsWith(low, L_otkroj)
    \/ startsWith(low, L_zakroj)
    \/ startsWith(low, L_vklyuchi)
    \/ includes(low, L_pozhalujsta)
    \/ startsWith(low, L_ah)
    \/ startsWith(low, L_oh)
    \/ startsWith(low, L_ura)

\* as addPunctuation, with exclamation detection checked before question detection
addPunctuation_ExclamationFirst(cleaned) ==
  IF endsWithTerminal(cleaned) THEN cleaned
  ELSE IF isExclamation(cleaned) THEN cleaned \o <<33>>
  ELSE IF isQuestion(cleaned) THEN cleaned \o <<63>>
  ELSE cleaned \o <<46>>

addPunctuation(cleaned) ==
  IF endsWithTerminal(cleaned) THEN cleaned
  ELSE IF isQuestion(cleaned) THEN cleaned \o <<63>>
  ELSE IF isExclamation(cleaned) THEN cleaned \o <<33>>
  ELSE cleaned \o <<46>>

cleanTextOf(text) ==
  collapseSpaces(trim(capitalizeFirst(addPunctuation(stripLeadIn(text)))))

\* The transcripts of the model, as handleResult() trims them, and their
\* cleaned forms: the two transforms are evaluated once for each of them.
Vocabulary ==
  {T_PrivetKakDela, T_PrivetKakDelaSegodnya, T_Privet, T_KakDela}
\* "скажи привет"
T_SkazhiPrivet == <<1089, 1082, 1072, 1078, 1080, 32, 1087, 1088, 1080, 1074, 1077, 1090>>
\* "мне скучно"
T_MneSkuchno == <<1084, 1085, 1077, 32, 1089, 1082, 1091, 1095, 1085, 1086>>
\* transcripts that begin with each lead-in cleanText strips
RepeatVocabulary == {T_SkazhiMneSkolko, T_SkazhiPrivet, T_MneSkuchno}
\* transcripts that exercise the cleaning rules
CleaningVocabulary ==
  {T_SkazhiMneSkolko, T_SdelajGromche, T_SdelajKak, T_PrivetExcl, T_Privet}
Trimmed == {trim(t) : t \in Vocabulary \cup CleaningVocabulary \cup RepeatVocabulary}
CleanedOnce == [t \in Trimmed |-> cleanTextOf(t)]
Texts == Trimmed \cup {CleanedOnce[t] : t \in Trimmed} \cup {<<>>}
NormalizedOnce == [t \in Texts |-> normalizeTextOf(t)]

\* cleanText(text)
cleanText(text) ==
  IF text \in Trimmed THEN CleanedOnce[text] ELSE cleanTextOf(text)

\* normalizeText(text)
normalizeText(text) ==
  IF text \in Texts THEN NormalizedOnce[text] ELSE normalizeTextOf(text)


(***************************************************************************)
(* State.                                                                  *)
(***************************************************************************)
VARIABLES
  platform,            \* the host: [isIOS, hasSpeechAPI] (PlatformAdapter, window)
  scope,               \* the inputs the host may deliver in this scenario
  config,              \* SpeechToTextModule.config
  status,              \* SpeechToTextModule.status
  isInitialized,       \* SpeechToTextModule.isInitialized
  recognitionService,  \* SpeechToTextModule.recognitionService: 0 is null, else a session
  callbacks,           \* onResultCallbacks, onErrorCallbacks, onStatusChangeCallbacks
  sessions,            \* the SpeechRecognitionService instances constructed so far
  timers,              \* the pending window.setTimeout entries
  calls,               \* the async initialize()/startListening() calls in flight
  epoch,               \* number of destroy() calls so far; names the callbacks registered since
  results,             \* history: the final results the engine has delivered
  emitted,             \* history: the final results handed to a Session onResult callback
  event,               \* the operation or host event of the last step
  fired,               \* the callbacks the last step invoked, in order
  held                 \* the getStatus() snapshots the application keeps

vars == <<platform, scope, config, status, isInitialized, recognitionService,
          callbacks, sessions, timers, calls, epoch, results, emitted, event, fired,
          held>>

Confidences == {60, 90}                      \* confidence, in hundredths
ErrorCodes == {"no-speech", "engine-specific"}  \* event.error of the engine
Calls == 1..MaxCalls
Languages == {"ru-RU", "en-US"}              \* BCP 47 tags the application selects

\* the lifecycle scenario: every operation of the Controller, one async call
\* at a time, one transcript
LifecycleScope ==
  [vocab |-> {T_Privet}, confidences |-> {90}, codes |-> ErrorCodes,
   results |-> MaxResults, errors |-> MaxErrors, sessions |-> MaxSessions,
   destroys |-> MaxDestroys, listeners |-> MaxListeners, calls |-> 1,
   stopFails |-> BOOLEAN, languages |-> {}, snapshots |-> 0,
   autoStop |-> FALSE]

\* the dictation scenario: one call at a time, the whole vocabulary
DictationScope ==
  [vocab |-> Vocabulary, confidences |-> Confidences, codes |-> {},
   results |-> MaxDictated, errors |-> 0, sessions |-> 1,
   destroys |-> 0, listeners |-> 1, calls |-> 1, stopFails |-> {FALSE},
   languages |-> {}, snapshots |-> 0,
   autoStop |-> FALSE]

\* the overlap scenario: async calls overlap; the engine delivers no result
OverlapScope ==
  [vocab |-> {}, confidences |-> {}, codes |-> {"no-speech"},
   results |-> 0, errors |-> MaxOverlapErrors, sessions |-> MaxOverlapSessions,
   destroys |-> MaxOverlapDestroys, listeners |-> 1, calls |-> MaxCalls,
   stopFails |-> {FALSE}, languages |-> {}, snapshots |-> 0,
   autoStop |-> FALSE]

\* the observer scenario: the application selects languages and watches the
\* status and the error log; the engine delivers no result
ObserverScope ==
  [vocab |-> {}, confidences |-> {}, codes |-> {"no-speech"},
   results |-> 0, errors |-> MaxLogged, sessions |-> MaxObservedSessions,
   destroys |-> MaxObservedDestroys, listeners |-> 1, calls |-> 1,
   stopFails |-> {FALSE}, languages |-> Languages, snapshots |-> 0,
   autoStop |-> FALSE]

\* the snapshot scenario: the application keeps getStatus() snapshots of one
\* Session's Controller while errors are logged
SnapshotScope ==
  [ObserverScope EXCEPT !.sessions = 1, !.destroys = 0, !.languages = {},
                        !.snapshots = MaxSnapshots]

\* the demo scenario: the demo application dictates one phrase after another
\* and switches its continuous-mode checkbox; its result handler is the
\* Controller's result listener
DemoScope ==
  [vocab |-> {T_Privet}, confidences |-> {90}, codes |-> {"no-speech"},
   results |-> MaxPhrases, errors |-> MaxErrors, sessions |-> 1,
   destroys |-> 0, listeners |-> 1, calls |-> 1, stopFails |-> {FALSE},
   languages |-> {}, snapshots |-> 0, autoStop |-> TRUE]

\* the cleaning scenario: one listening Session is given each transcript of
\* the cleaning vocabulary, as an interim or as a final result
CleaningScope ==
  [DictationScope EXCEPT !.vocab = CleaningVocabulary, !.confidences = {90},
                         !.results = MaxCleaned]

\* the last-stop scenario: the user starts and stops listening, one call at a
\* time; the engine delivers no result
StopScope ==
  [OverlapScope EXCEPT !.errors = MaxLogged, !.sessions = 1, !.destroys = 0,
                       !.calls = 1]

\* the repetition scenario: one listening session in which the engine
\* delivers transcripts that begin with a lead-in, possibly the same twice
RepeatScope ==
  [DictationScope EXCEPT !.vocab = RepeatVocabulary, !.confidences = {90},
                         !.results = MaxRepeated]

NoEvent == [op |-> "none"]
IdleCall == [pc |-> "idle", op |-> "none", began |-> 0]

\* SpeechToTextModule constructor, called without a config
InitConfig == [language |-> "ru-RU", continuous |-> TRUE]

InitStatus ==
  [isListening |-> FALSE, isInitialized |-> FALSE, hasPermission |-> FALSE,
   language |-> InitConfig.language, errors |-> <<>>]

InitCallbacks == [result |-> <<>>, error |-> <<>>, status |-> <<>>]

Init ==
  /\ platform \in [isIOS : BOOLEAN, hasSpeechAPI : BOOLEAN]
  /\ scope = LifecycleScope
  /\ config = InitConfig
  /\ status = InitStatus
  /\ isInitialized = FALSE
  /\ recognitionService = 0
  /\ callbacks = InitCallbacks
  /\ sessions = <<>>
  /\ timers = {}
  /\ calls = [p \in Calls |-> IdleCall]
  /\ epoch = 0
  /\ results = <<>>
  /\ emitted = <<>>
  /\ event = NoEvent
  /\ fired = <<>>
  /\ held = <<>>

(***************************************************************************)
(* Recognition Session: construction and the Controller's handlers.        *)
(***************************************************************************)
\* as EngineContinuous, with the requested configuration honoured
EngineContinuous_AsConfigured(isIOS) == config.continuous

\* the engine's configuration after the SpeechRecognitionService constructor
EngineContinuous(isIOS) == ~isIOS
EngineInterimResults(isIOS) == ~isIOS

\* new SpeechRecognitionService(config) followed by setupRecognitionHandlers()
NewSession(language) ==
  [recognition |-> TRUE,
   isListening |-> FALSE,
   lastFinalResult |-> <<>>,
   debounceTimeout |-> 0,
   onResultCallback |-> TRUE,
   onErrorCallback |-> TRUE,
   onStartCallback |-> TRUE,
   onEndCallback |-> TRUE,
   engine |-> [state |-> "idle",
               lang |-> language,
               continuous |-> EngineContinuous(platform.isIOS),
               interimResults |-> EngineInterimResults(platform.isIOS)],
   fresh |-> TRUE,      \* history: no final result has arrived since the last onstart
   epoch |-> epoch]     \* history: when its callbacks were registered

\* a callback invocation, as recorded in fired
Invoke(layer, kind, listener, payload) ==
  [layer |-> layer, kind |-> kind, listener |-> listener, payload |-> payload]

\* the one array that status.errors refers to for the Controller's lifetime
ErrorsRef == "status.errors"

\* getStatus(): the snapshot handed out, { ...this.status }: the scalar
\* fields are copied, errors is the reference to the Controller's array
getStatus(st) == [st EXCEPT !.errors = ErrorsRef]

\* snapshot.errors, read now
ErrorsOf(snapshot) ==
  IF snapshot.errors = ErrorsRef THEN status.errors ELSE snapshot.errors

\* updateStatus(): every status listener is called with a snapshot
updateStatus(st, cbs) ==
  [i \in 1..Len(cbs.status) |-> Invoke("controller", "status", cbs.status[i], getStatus(st))]

\* as ControllerOnError, with the error listeners invoked before the broadcast
ControllerOnError_ListenersFirst(st, cbs, error) ==
  LET st2 == [st EXCEPT !.errors = Append(@, error)] IN
    [status |-> st2,
     fired |-> [i \in 1..Len(cbs.error) |-> Invoke("controller", "error", cbs.error[i], error)]
               \o updateStatus(st2, cbs)]

\* the Controller's onError handler: log, broadcast, fan out
ControllerOnError(st, cbs, error) ==
  LET st2 == [st EXCEPT !.errors = Append(@, error)] IN
    [status |-> st2,
     fired |-> updateStatus(st2, cbs) \o
               [i \in 1..Len(cbs.error) |-> Invoke("controller", "error", cbs.error[i], error)]]

\* the Controller's onResult handler
ControllerOnResult(cbs, result) ==
  [i \in 1..Len(cbs.result) |-> Invoke("controller", "result", cbs.result[i], result)]


(***************************************************************************)
(* A step runs one handler to completion.  The handler's effect is built   *)
(* up in a record w of the fields it may write; log lists the calls it     *)
(* made and how it ended, fired the callbacks it invoked.                  *)
(***************************************************************************)
World ==
  [config |-> config, status |-> status, isInitialized |-> isInitialized,
   recognitionService |-> recognitionService, sessions |-> sessions,
   timers |-> timers, callbacks |-> callbacks, emitted |-> emitted,
   pc |-> "idle", granted |-> FALSE, stopFails |-> FALSE, log |-> <<>>, fired |-> <<>>]

Log(w, what) == [w EXCEPT !.log = Append(@, what)]

W_updateStatus(w) ==
  [w EXCEPT !.fired = @ \o updateStatus(w.status, w.callbacks)]

\* the Controller's onError handler, registered on the Session
W_onError(w, error) ==
  LET r == ControllerOnError(w.status, w.callbacks, error) IN
    [w EXCEPT !.status = r.status, !.fired = @ \o r.fired]

\* as SessionStart, with a failure of recognition.start() left unreported
SessionStart_Silent(w, s) ==
  LET ses == w.sessions[s]
      w1 == Log(w, "session.start") IN
    IF ses.isListening THEN w1
    ELSE IF ses.recognition /\ ses.engine.state = "idle"
    THEN [Log(w1, "engine.start") EXCEPT !.sessions[s].engine.state = "starting"]
    ELSE Log(w1, "engine.start.threw")

\* as SessionStart, without the isListening test of line 591
SessionStart_Unguarded(w, s) ==
  LET ses == w.sessions[s]
      w1 == Log(w, "session.start") IN
    IF ses.recognition /\ ses.engine.state = "idle"
    THEN [Log(w1, "engine.start") EXCEPT !.sessions[s].engine.state = "starting"]
    ELSE LET w2 == Log(w1, "engine.start.threw") IN
        IF ses.onErrorCallback
        THEN W_onError([w2 EXCEPT !.fired = Append(@, Invoke("session", "error", ses.epoch, "aborted"))],
                       [type |-> "aborted"])
        ELSE w2

\* SpeechRecognitionService.start()
SessionStart(w, s) ==
  LET ses == w.sessions[s]
      w1 == Log(w, "session.start") IN
    IF ses.isListening THEN w1
    ELSE IF ses.recognition /\ ses.engine.state = "idle"
    THEN [Log(w1, "engine.start") EXCEPT !.sessions[s].engine.state = "starting"]
    ELSE \* recognition.start() threw: the engine had been started already
      LET w2 == Log(w1, "engine.start.threw") IN
        IF ses.onErrorCallback
        THEN W_onError([w2 EXCEPT !.fired = Append(@, Invoke("session", "error", ses.epoch, "aborted"))],
                       [type |-> "aborted"])
        ELSE w2

\* history: the timers of session s that were pending when it was stopped
MarkStopped(pending, s) ==
  {IF t.sid = s THEN [t EXCEPT !.stopped = TRUE] ELSE t : t \in pending}

\* as SessionStop, without the isListening test of line 607
SessionStop_Unguarded(w, s) ==
  LET ses == w.sessions[s]
      w2 == [Log(Log(w, "session.stop"), "engine.stop") EXCEPT
               !.timers = MarkStopped(@, s)] IN
    IF w.stopFails THEN Log(w2, "engine.stop.threw")
    ELSE IF ses.recognition /\ ses.engine.state \in {"starting", "running"}
    THEN [w2 EXCEPT !.sessions[s].engine.state = "stopping"]
    ELSE w2

\* SpeechRecognitionService.stop(); a failure of recognition.stop() is caught
\* and dropped
SessionStop(w, s) ==
  LET ses == w.sessions[s]
      w1 == Log(w, "session.stop") IN
    IF ~ses.isListening THEN w1
    ELSE LET w2 == [Log(w1, "engine.stop") EXCEPT !.timers = MarkStopped(@, s)] IN
           IF w.stopFails \/ ~ses.recognition THEN Log(w2, "engine.stop.threw")
           ELSE IF ses.recognition /\ ses.engine.state \in {"starting", "running"}
           THEN [w2 EXCEPT !.sessions[s].engine.state = "stopping"]
           ELSE w2

\* clearTimeout(id)
clearTimeout(pending, id) == {t \in pending : t.id # id}

\* SpeechRecognitionService.destroy()
SessionDestroy(w, s) ==
  LET ses == w.sessions[s]
      w1 == IF ses.debounceTimeout # 0
            THEN [w EXCEPT !.timers = clearTimeout(@, ses.debounceTimeout)]
            ELSE w
      w2 == SessionStop(w1, s) IN
    [w2 EXCEPT !.sessions[s].recognition = FALSE,
               !.sessions[s].onResultCallback = FALSE,
               !.sessions[s].onErrorCallback = FALSE,
               !.sessions[s].onStartCallback = FALSE,
               !.sessions[s].onEndCallback = FALSE]

\* initialize(), lines 90-100: construct the Session, wire it, report
Construct(w) ==
  W_updateStatus(
    [Log(w, "new Session") EXCEPT
       !.sessions = Append(@, NewSession(w.config.language)),
       !.recognitionService = Len(w.sessions) + 1,
       !.isInitialized = TRUE,
       !.status.isInitialized = TRUE])

\* as InitializeFailed, with the Controller left marked initialized
InitializeFailed_Marked(w) ==
  Log(W_updateStatus([w EXCEPT !.status.errors =
                         Append(@, [type |-> "service-not-allowed"]),
                       !.isInitialized = TRUE]),
      "throw:initialize")

\* initialize(), the catch block: log the failure, broadcast, rethrow
InitializeFailed(w) ==
  Log(W_updateStatus([w EXCEPT !.status.errors =
                         Append(@, [type |-> "service-not-allowed"])]),
      "throw:initialize")

\* as InitializeBegin, with the probe made on every platform
InitializeBegin_ProbesAlways(w) ==
  IF w.isInitialized THEN Log(w, "initialize:already")
  ELSE IF ~platform.hasSpeechAPI THEN InitializeFailed(w)
  ELSE [Log(w, "await:checkMicrophonePermission") EXCEPT !.pc = "init_probe"]

\* as InitializeBegin, without the isInitialized test of lines 39-41
InitializeBegin_Unguarded(w) ==
  IF ~platform.hasSpeechAPI THEN InitializeFailed(w)
  ELSE IF platform.isIOS
  THEN Construct([w EXCEPT !.status.hasPermission = FALSE])
  ELSE [Log(w, "await:checkMicrophonePermission") EXCEPT !.pc = "init_probe"]

\* initialize() up to its first suspension
InitializeBegin(w) ==
  IF w.isInitialized THEN Log(w, "initialize:already")
  ELSE IF ~platform.hasSpeechAPI THEN InitializeFailed(w)
  ELSE IF platform.isIOS
  THEN Construct([w EXCEPT !.status.hasPermission = FALSE])
  ELSE [Log(w, "await:checkMicrophonePermission") EXCEPT !.pc = "init_probe"]

\* initialize() resumed with the answer of checkMicrophonePermission()
InitializeResume(w, hasPermission) ==
  Construct([w EXCEPT !.status.hasPermission = hasPermission])

\* as NeedsPermissionRequest, with the passive check trusted
NeedsPermissionRequest_Never(st) == FALSE

\* startListening(), line 175: is an active permission request needed
NeedsPermissionRequest(st) == ~st.hasPermission

\* as StartSession, with the Controller marking itself listening
StartSession_Asserting(w) ==
  IF w.recognitionService = 0
  THEN Log(W_updateStatus([w EXCEPT !.status.errors =
                             Append(@, [type |-> "service-not-allowed"])]),
           "throw:start")
  ELSE Log(W_updateStatus([SessionStart(w, w.recognitionService) EXCEPT
                             !.status.isListening = TRUE]),
           "return")

\* startListening(), lines 184-198: delegate to the Session
StartSession(w) ==
  IF w.recognitionService = 0
  THEN \* this.recognitionService is null: the call throws inside the try
    Log(W_updateStatus([w EXCEPT !.status.errors =
                           Append(@, [type |-> "service-not-allowed"])]),
        "throw:start")
  ELSE Log(SessionStart(w, w.recognitionService), "return")

\* startListening(), lines 167-199, once initialize() has completed
StartAfterInit(w) ==
  IF w.recognitionService = 0 THEN Log(w, "throw:not-initialized")
  ELSE IF w.status.isListening THEN Log(w, "return:listening")
  ELSE IF NeedsPermissionRequest(w.status)
  THEN [Log(w, "await:getUserMedia") EXCEPT !.pc = "req_gum"]
  ELSE StartSession(Log(w, "permission:held"))

\* startListening() up to its first suspension
StartListeningBegin(w) ==
  IF w.isInitialized THEN StartAfterInit(w)
  ELSE LET w1 == InitializeBegin(w) IN
         IF w1.pc = "init_probe" \/ "throw:initialize" \in {w1.log[i] : i \in 1..Len(w1.log)}
         THEN w1
         ELSE StartAfterInit(w1)

\* as RequestResume, with a declined prompt taken for a granted one
RequestResume_IgnoresDenial(w, allowed) ==
  [Log(w, "await:audioManager.initialize") EXCEPT
     !.status.hasPermission = TRUE, !.pc = "req_audio"]

\* requestMicrophoneAccess() resumed with the answer of getUserMedia()
RequestResume(w, allowed) ==
  IF allowed
  THEN [Log(w, "await:audioManager.initialize") EXCEPT
          !.status.hasPermission = TRUE, !.pc = "req_audio"]
  ELSE Log(W_updateStatus([w EXCEPT !.status.hasPermission = FALSE]),
           "throw:denied")

\* requestMicrophoneAccess() resumed from audioManager.initialize(), then
\* startListening() resumed with its answer
AudioResume(w, ok) ==
  IF ok
  THEN StartSession(Log([W_updateStatus(w) EXCEPT !.granted = TRUE],
                        "permission:granted"))
  ELSE Log(W_updateStatus([w EXCEPT !.status.hasPermission = FALSE]),
           "throw:denied")

\* as StopListening, with the Controller clearing isListening itself
StopListening_Asserting(w) ==
  IF w.recognitionService = 0 \/ ~w.status.isListening
  THEN Log(w, "stopListening:no-op")
  ELSE W_updateStatus([SessionStop(w, w.recognitionService) EXCEPT
                         !.status.isListening = FALSE])

\* stopListening()
StopListening(w) ==
  IF w.recognitionService = 0 \/ ~w.status.isListening
  THEN Log(w, "stopListening:no-op")
  ELSE SessionStop(w, w.recognitionService)

\* setLanguage(language)
SetLanguage(w, language) ==
  LET w1 == [w EXCEPT !.config.language = language, !.status.language = language]
      w2 == IF w1.recognitionService # 0
            THEN [w1 EXCEPT !.sessions[w1.recognitionService].engine.lang = language]
            ELSE w1 IN
    W_updateStatus(w2)

\* setContinuous(continuous), with the Session's setContinuous
SetContinuous(w, continuous) ==
  LET w1 == [w EXCEPT !.config.continuous = continuous] IN
    IF w1.recognitionService # 0
    THEN [w1 EXCEPT !.sessions[w1.recognitionService].engine.continuous = continuous]
    ELSE w1

\* destroy(), lines 294-296: the three callback lists after destroy()
ReleasedCallbacks(cbs) == InitCallbacks

\* as Destroy, without the null test of line 286
Destroy_RequiringSession(w) ==
  LET w1 == StopListening(w) IN
    IF w1.recognitionService = 0 THEN Log(w1, "throw:destroy")
    ELSE W_updateStatus(
           [SessionDestroy(w1, w1.recognitionService) EXCEPT
              !.recognitionService = 0,
              !.isInitialized = FALSE,
              !.status.isInitialized = FALSE,
              !.status.isListening = FALSE,
              !.callbacks = ReleasedCallbacks(@)])

\* as Destroy, with the error log emptied
Destroy_ClearingLog(w) ==
  LET w1 == StopListening(w)
      w2 == IF w1.recognitionService # 0
            THEN [SessionDestroy(w1, w1.recognitionService) EXCEPT
                    !.recognitionService = 0]
            ELSE w1 IN
    W_updateStatus(
      [w2 EXCEPT !.isInitialized = FALSE,
                 !.status.isInitialized = FALSE,
                 !.status.isListening = FALSE,
                 !.status.errors = <<>>,
                 !.callbacks = ReleasedCallbacks(@)])

\* destroy()
Destroy(w) ==
  LET w1 == StopListening(w)
      w2 == IF w1.recognitionService # 0
            THEN [SessionDestroy(w1, w1.recognitionService) EXCEPT
                    !.recognitionService = 0]
            ELSE w1 IN
    W_updateStatus(
      [w2 EXCEPT !.isInitialized = FALSE,
                 !.status.isInitialized = FALSE,
                 !.status.isListening = FALSE,
                 !.callbacks = ReleasedCallbacks(@)])


(***************************************************************************)
(* Recognition Session: the engine's four event handlers and the debounce  *)
(* timer's callback.                                                       *)
(***************************************************************************)
\* handleStart(), with the Controller's onStart handler
HandleStart(w, s) ==
  LET ses == w.sessions[s]
      w1 == [w EXCEPT !.sessions[s].isListening = TRUE,
                      !.sessions[s].lastFinalResult = <<>>,
                      !.sessions[s].fresh = TRUE] IN
    IF ses.onStartCallback
    THEN W_updateStatus(
           [w1 EXCEPT !.status.isListening = TRUE,
                      !.fired = Append(@, Invoke("session", "start", ses.epoch, <<>>))])
    ELSE w1

\* handleEnd(), with the Controller's onEnd handler
HandleEnd(w, s) ==
  LET ses == w.sessions[s]
      w1 == [w EXCEPT !.sessions[s].isListening = FALSE] IN
    IF ses.onEndCallback
    THEN W_updateStatus(
           [w1 EXCEPT !.status.isListening = FALSE,
                      !.fired = Append(@, Invoke("session", "end", ses.epoch, <<>>))])
    ELSE w1

mapErrorCode(code) ==
  IF code \in {"no-speech", "aborted", "audio-capture", "network", "not-allowed",
               "service-not-allowed", "bad-grammar", "language-not-supported"}
  THEN code
  ELSE "network"

\* handleError(), with the Controller's onError handler
HandleError(w, s, code) ==
  LET ses == w.sessions[s]
      errorType == mapErrorCode(code)
      w1 == [w EXCEPT !.sessions[s].isListening = FALSE] IN
    IF ses.onErrorCallback
    THEN W_onError([w1 EXCEPT !.fired = Append(@, Invoke("session", "error", ses.epoch, errorType))],
                   [type |-> errorType])
    ELSE w1

\* as handleRecognitionResult, with the stop left to the user
handleRecognitionResult_Manual(w, result) == w

\* DemoApplication.handleRecognitionResult(result), the result listener the
\* demo application registers; its continuous-mode checkbox and
\* config.continuous are set together (part_000 117-119, 128-131)
handleRecognitionResult(w, result) ==
  LET isContinuous == w.config.continuous
      currentStatus == getStatus(w.status) IN
    IF result.transcript = <<>> THEN w
    ELSE IF result.isFinal /\ ~isContinuous /\ currentStatus.isListening
    THEN Log(StopListening(Log(w, "auto-stop")), "auto-stop:done")
    ELSE w

\* the Session hands a RecognitionResult to its onResult callback, which is
\* the Controller's fan-out
EmitResult(w, s, result) ==
  IF w.sessions[s].onResultCallback
  THEN LET w1 == [w EXCEPT !.fired = @ \o <<Invoke("session", "result", w.sessions[s].epoch, result)>>
                                        \o ControllerOnResult(w.callbacks, result)] IN
         IF scope.autoStop /\ w.callbacks.result # <<>>
         THEN handleRecognitionResult(w1, result)
         ELSE w1
  ELSE w

\* as CancelPending, without the clearTimeout() of lines 471-473
CancelPending_Kept(pending, debounceTimeout) == pending

\* handleResult(), lines 471-473: the timers left pending when a final result arrives
CancelPending(pending, debounceTimeout) ==
  IF debounceTimeout # 0 THEN clearTimeout(pending, debounceTimeout) ELSE pending

\* as HandleResult, with the id of the new timer not kept in debounceTimeout
HandleResult_ForgetsTimer(w, s, raw, confidence, isFinal, id) ==
  LET ses == w.sessions[s]
      transcript == trim(raw) IN
    IF ~isFinal
    THEN EmitResult(w, s, [transcript |-> cleanText(transcript),
                           confidence |-> confidence, isFinal |-> FALSE])
    ELSE [w EXCEPT
            !.timers = CancelPending(@, ses.debounceTimeout) \cup
                       {[id |-> id, sid |-> s, transcript |-> transcript,
                         confidence |-> confidence, elapsed |-> 0,
                         stopped |-> FALSE, first |-> ses.fresh]},
            !.sessions[s].fresh = FALSE]

\* as HandleResult, with the pending timer cleared before the isFinal test
HandleResult_InterimCancels(w, s, raw, confidence, isFinal, id) ==
  LET ses == w.sessions[s]
      transcript == trim(raw)
      w0 == [w EXCEPT !.timers = CancelPending(@, ses.debounceTimeout)] IN
    IF ~isFinal
    THEN EmitResult(w0, s, [transcript |-> cleanText(transcript),
                            confidence |-> confidence, isFinal |-> FALSE])
    ELSE [w0 EXCEPT
            !.timers = @ \cup
                       {[id |-> id, sid |-> s, transcript |-> transcript,
                         confidence |-> confidence, elapsed |-> 0,
                         stopped |-> FALSE, first |-> ses.fresh]},
            !.sessions[s].debounceTimeout = id,
            !.sessions[s].fresh = FALSE]

\* as HandleResult, with the interim transcript emitted as the engine gave it
HandleResult_RawInterim(w, s, raw, confidence, isFinal, id) ==
  LET ses == w.sessions[s]
      transcript == trim(raw) IN
    IF ~isFinal
    THEN EmitResult(w, s, [transcript |-> transcript,
                           confidence |-> confidence, isFinal |-> FALSE])
    ELSE [w EXCEPT
            !.timers = CancelPending(@, ses.debounceTimeout) \cup
                       {[id |-> id, sid |-> s, transcript |-> transcript,
                         confidence |-> confidence, elapsed |-> 0,
                         stopped |-> FALSE, first |-> ses.fresh]},
            !.sessions[s].debounceTimeout = id,
            !.sessions[s].fresh = FALSE]

\* handleResult() for the engine result number id, delivered to session s
HandleResult(w, s, raw, confidence, isFinal, id) ==
  LET ses == w.sessions[s]
      transcript == trim(raw) IN
    IF ~isFinal
    THEN EmitResult(w, s, [transcript |-> cleanText(transcript),
                           confidence |-> confidence, isFinal |-> FALSE])
    ELSE [w EXCEPT
            !.timers = CancelPending(@, ses.debounceTimeout) \cup
                       {[id |-> id, sid |-> s, transcript |-> transcript,
                         confidence |-> confidence, elapsed |-> 0,
                         stopped |-> FALSE, first |-> ses.fresh]},
            !.sessions[s].debounceTimeout = id,
            !.sessions[s].fresh = FALSE]

\* as isNearDuplicate, with startsWith in place of includes
isNearDuplicate_PrefixOnly(normalizedNew, normalizedLast) ==
  /\ normalizedLast # <<>>
  /\ startsWith(normalizedNew, normalizedLast)
  /\ Len(normalizedNew) - Len(normalizedLast) < SuppressDelta

\* as isNearDuplicate, without the length test
isNearDuplicate_AnyLength(normalizedNew, normalizedLast) ==
  /\ normalizedLast # <<>>
  /\ includes(normalizedNew, normalizedLast)

\* the debounce callback, line 479: the near-duplicate test
isNearDuplicate(normalizedNew, normalizedLast) ==
  /\ normalizedLast # <<>>
  /\ includes(normalizedNew, normalizedLast)
  /\ Len(normalizedNew) - Len(normalizedLast) < SuppressDelta

\* the debounce callback, lines 475-498, run for the expired timer t
DebounceCallback(w, t) ==
  LET s == t.sid
      ses == w.sessions[s]
      normalizedNew == normalizeText(t.transcript)
      normalizedLast == normalizeText(ses.lastFinalResult) IN
    IF isNearDuplicate(normalizedNew, normalizedLast)
    THEN Log(w, "suppressed")
    ELSE LET cleanedTranscript == cleanText(t.transcript)
             result == [transcript |-> cleanedTranscript,
                        confidence |-> t.confidence, isFinal |-> TRUE]
             w1 == [w EXCEPT !.sessions[s].lastFinalResult = cleanedTranscript]
             w2 == IF ses.onResultCallback
                   THEN [EmitResult(w1, s, result) EXCEPT
                           !.emitted = Append(@, [src |-> t.id, result |-> result,
                                                  waited |-> t.elapsed,
                                                  raw |-> t.transcript])]
                   ELSE w1 IN
           [Log(w2, "recorded") EXCEPT !.sessions[s].debounceTimeout = 0]

\* window.setTimeout(callback, DEBOUNCE_DELAY): the callback runs no earlier
\* than the delay after the timer was set
TimerDue(t) == t.elapsed >= DEBOUNCE_DELAY

(***************************************************************************)
(* Steps.                                                                  *)
(***************************************************************************)
Commit(w, ev) ==
  /\ Len(w.status.errors) <= scope.errors
  /\ Len(w.sessions) <= scope.sessions
  /\ status' = w.status
  /\ isInitialized' = w.isInitialized
  /\ recognitionService' = w.recognitionService
  /\ sessions' = w.sessions
  /\ timers' = w.timers
  /\ callbacks' = w.callbacks
  /\ emitted' = w.emitted
  /\ fired' = w.fired
  /\ event' = ev @@ [log |-> w.log]
  /\ config' = w.config
  /\ UNCHANGED <<platform, scope, held>>

FreeSlot(p) ==
  /\ p <= scope.calls
  /\ calls[p].pc = "idle"
  /\ \A q \in Calls : q < p => calls[q].pc # "idle"

\* began is history: the number of destroy() calls made before the call began
Suspend(p, w, op) ==
  calls' = [calls EXCEPT ![p] = IF w.pc = "idle" THEN IdleCall
                                 ELSE [pc |-> w.pc, op |-> op,
                                       began |-> IF calls[p].pc = "idle" THEN epoch
                                                 ELSE calls[p].began]]

\* the application calls initialize()
CallInitialize(p) ==
  /\ FreeSlot(p)
  /\ LET w == InitializeBegin(World) IN
       /\ Commit(w, [op |-> "initialize", call |-> p])
       /\ Suspend(p, w, "initialize")
  /\ UNCHANGED <<epoch, results>>

\* the application calls startListening()
CallStartListening(p) ==
  /\ FreeSlot(p)
  /\ LET w == StartListeningBegin(World) IN
       /\ Commit(w, [op |-> "startListening", call |-> p])
       /\ Suspend(p, w, "startListening")
  /\ UNCHANGED <<epoch, results>>

\* the application calls toggleListening(): stopListening() when the status
\* says listening, else startListening(), whose promise it drops
CallToggleListening(p) ==
  /\ IF status.isListening
     THEN /\ p = 1
          /\ Commit(StopListening(World), [op |-> "toggleListening", call |-> p])
          /\ UNCHANGED calls
     ELSE /\ FreeSlot(p)
          /\ LET w == StartListeningBegin(World) IN
               /\ Commit(w, [op |-> "toggleListening", call |-> p])
               /\ Suspend(p, w, "startListening")
  /\ UNCHANGED <<epoch, results>>

\* checkMicrophonePermission() answers a suspended initialize()
ResolveProbe(p, hasPermission) ==
  /\ calls[p].pc = "init_probe"
  /\ LET w1 == InitializeResume(World, hasPermission)
         w == IF calls[p].op = "startListening" THEN StartAfterInit(w1) ELSE w1 IN
       /\ Commit(w, [op |-> "resolve:probe", call |-> p, answer |-> hasPermission,
                     of |-> calls[p].op, began |-> calls[p].began])
       /\ Suspend(p, w, calls[p].op)
  /\ UNCHANGED <<epoch, results>>

\* the permission prompt answers the getUserMedia() of requestMicrophoneAccess()
ResolveGetUserMedia(p, allowed) ==
  /\ calls[p].pc = "req_gum"
  /\ LET w == RequestResume(World, allowed) IN
       /\ Commit(w, [op |-> "resolve:getUserMedia", call |-> p, answer |-> allowed,
                     began |-> calls[p].began])
       /\ Suspend(p, w, calls[p].op)
  /\ UNCHANGED <<epoch, results>>

\* audioManager.initialize() settles
ResolveAudioInit(p, ok) ==
  /\ calls[p].pc = "req_audio"
  /\ LET w == AudioResume(World, ok) IN
       /\ Commit(w, [op |-> "resolve:audioInit", call |-> p, answer |-> ok,
                     began |-> calls[p].began])
       /\ Suspend(p, w, calls[p].op)
  /\ UNCHANGED <<epoch, results>>

\* the state of the engine of the Controller's Session
EngineState ==
  IF recognitionService = 0 THEN "none" ELSE sessions[recognitionService].engine.state

\* the application calls stopListening(); fails says whether the engine's
\* stop(), if the call reaches it, throws
CallStopListening(fails) ==
  /\ LET w == StopListening([World EXCEPT !.stopFails = fails]) IN
       /\ fails => \E i \in 1..Len(w.log) : w.log[i] = "engine.stop"
       /\ Commit(w, [op |-> "stopListening", was |-> EngineState, threw |-> fails])
  /\ UNCHANGED <<calls, epoch, results>>

CallDestroy ==
  /\ epoch < scope.destroys
  /\ Commit(Destroy(World), [op |-> "destroy"])
  /\ epoch' = epoch + 1
  /\ UNCHANGED <<calls, results>>

\* the application subscribes: onResult(cb), onError(cb), onStatusChange(cb)
Subscribe ==
  /\ Len(callbacks.result) < scope.listeners
  /\ callbacks' = [result |-> Append(callbacks.result, epoch),
                   error |-> Append(callbacks.error, epoch),
                   status |-> Append(callbacks.status, epoch)]
  /\ event' = [op |-> "subscribe"]
  /\ fired' = <<>>
  /\ UNCHANGED <<platform, scope, config, status, isInitialized, recognitionService,
                 sessions, timers, calls, epoch, results, emitted, held>>

\* the application calls setLanguage(language)
CallSetLanguage(language) ==
  /\ Commit(SetLanguage(World, language), [op |-> "setLanguage", language |-> language])
  /\ UNCHANGED <<calls, epoch, results>>

\* the application calls setContinuous(continuous)
CallSetContinuous(continuous) ==
  /\ continuous # config.continuous
  /\ Commit(SetContinuous(World, continuous), [op |-> "setContinuous", continuous |-> continuous])
  /\ UNCHANGED <<calls, epoch, results>>

\* the application calls getStatus() and keeps the snapshot; seen is history:
\* what snapshot.errors held when the snapshot was taken
CallGetStatus ==
  /\ Len(held) < scope.snapshots
  /\ held' = Append(held, [snapshot |-> getStatus(status), seen |-> status.errors])
  /\ event' = [op |-> "getStatus"]
  /\ fired' = <<>>
  /\ UNCHANGED <<platform, scope, config, status, isInitialized, recognitionService,
                 callbacks, sessions, timers, calls, epoch, results, emitted>>

\* the engine of session s fires onstart
EngineStart(s) ==
  /\ sessions[s].engine.state = "starting"
  /\ Commit([HandleStart(World, s) EXCEPT !.sessions[s].engine.state = "running"],
            [op |-> "engine:start", sid |-> s])
  /\ UNCHANGED <<calls, epoch, results>>

\* ms since the final result whose debounce timer is pending in session s
\* arrived; DEBOUNCE_DELAY when none is pending
SinceFinal(s) ==
  LET pending == {t \in timers : t.id = sessions[s].debounceTimeout} IN
    IF pending = {} THEN DEBOUNCE_DELAY ELSE (CHOOSE t \in pending : TRUE).elapsed

\* the engine of session s fires onresult
EngineResult(s, raw, confidence, isFinal) ==
  /\ sessions[s].engine.state \in {"running", "stopping"}
  /\ isFinal \/ sessions[s].engine.interimResults
  /\ isFinal => Len(results) < scope.results
  /\ Commit(HandleResult(World, s, raw, confidence, isFinal, Len(results) + 1),
            [op |-> "engine:result", sid |-> s, isFinal |-> isFinal,
             raw |-> raw, confidence |-> confidence])
  /\ results' = IF isFinal
                THEN Append(results, [sid |-> s, raw |-> raw, confidence |-> confidence,
                                      gap |-> SinceFinal(s)])
                ELSE results
  /\ UNCHANGED <<calls, epoch>>

\* the engine of session s fires onerror; its onend follows
EngineError(s, code) ==
  /\ sessions[s].engine.state \in {"starting", "running", "stopping"}
  /\ Commit([HandleError(World, s, code) EXCEPT !.sessions[s].engine.state = "ending"],
            [op |-> "engine:error", sid |-> s, code |-> code])
  /\ UNCHANGED <<calls, epoch, results>>

\* the engine of session s fires onend
EngineEnd(s) ==
  /\ sessions[s].engine.state \in {"running", "stopping", "ending"}
  /\ Commit([HandleEnd(World, s) EXCEPT !.sessions[s].engine.state = "idle"],
            [op |-> "engine:end", sid |-> s])
  /\ UNCHANGED <<calls, epoch, results>>

\* a debounce timer expires
TimerFire(t) ==
  /\ TimerDue(t)
  /\ Commit(DebounceCallback([World EXCEPT !.timers = @ \ {t}], t),
            [op |-> "timer", id |-> t.id, sid |-> t.sid, transcript |-> t.transcript,
             last |-> sessions[t.sid].lastFinalResult, stopped |-> t.stopped,
             first |-> t.first])
  /\ UNCHANGED <<calls, epoch, results>>

Later(ms) == IF ms + Tick >= DEBOUNCE_DELAY THEN DEBOUNCE_DELAY ELSE ms + Tick

\* time passes
TickTime ==
  /\ \E t \in timers : t.elapsed < DEBOUNCE_DELAY
  /\ timers' = {[t EXCEPT !.elapsed = Later(@)] : t \in timers}
  /\ event' = [op |-> "tick"]
  /\ fired' = <<>>
  /\ UNCHANGED <<platform, scope, config, status, isInitialized, recognitionService,
                 callbacks, sessions, calls, epoch, results, emitted, held>>

Next ==
  \/ \E p \in Calls : CallInitialize(p)
  \/ \E p \in Calls : CallStartListening(p)
  \/ \E p \in Calls, b \in BOOLEAN : ResolveProbe(p, b)
  \/ \E p \in Calls, b \in BOOLEAN : ResolveGetUserMedia(p, b)
  \/ \E p \in Calls, b \in BOOLEAN : ResolveAudioInit(p, b)
  \/ \E fails \in scope.stopFails : CallStopListening(fails)
  \/ CallDestroy
  \/ Subscribe
  \/ \E s \in 1..Len(sessions) : EngineStart(s)
  \/ \E s \in 1..Len(sessions), raw \in scope.vocab, c \in scope.confidences,
          f \in BOOLEAN :
       EngineResult(s, raw, c, f)
  \/ \E s \in 1..Len(sessions), code \in scope.codes : EngineError(s, code)
  \/ \E s \in 1..Len(sessions) : EngineEnd(s)
  \/ \E t \in timers : TimerFire(t)
  \/ TickTime

Spec == Init /\ [][Next]_vars

(***************************************************************************)
(* The dictation scenario: an application that has subscribed to the       *)
(* Controller dictates; it starts and stops listening, one call at a time. *)
(***************************************************************************)
InitDictation ==
  /\ platform \in [isIOS : BOOLEAN, hasSpeechAPI : {TRUE}]
  /\ scope = DictationScope
  /\ config = InitConfig
  /\ status = InitStatus
  /\ isInitialized = FALSE
  /\ recognitionService = 0
  /\ callbacks = [result |-> <<0>>, error |-> <<0>>, status |-> <<0>>]
  /\ sessions = <<>>
  /\ timers = {}
  /\ calls = [p \in Calls |-> IdleCall]
  /\ epoch = 0
  /\ results = <<>>
  /\ emitted = <<>>
  /\ event = NoEvent
  /\ fired = <<>>
  /\ held = <<>>

NextDictation ==
  \/ \E p \in Calls : CallStartListening(p)
  \/ \E p \in Calls, b \in BOOLEAN : ResolveProbe(p, b)
  \/ \E p \in Calls, b \in BOOLEAN : ResolveGetUserMedia(p, b)
  \/ \E p \in Calls, b \in BOOLEAN : ResolveAudioInit(p, b)
  \/ \E fails \in scope.stopFails : CallStopListening(fails)
  \/ \E s \in 1..Len(sessions) : EngineStart(s)
  \/ \E s \in 1..Len(sessions), raw \in scope.vocab, c \in scope.confidences,
          f \in BOOLEAN :
       EngineResult(s, raw, c, f)
  \/ \E s \in 1..Len(sessions) : EngineEnd(s)
  \/ \E t \in timers : TimerFire(t)
  \/ TickTime

SpecDictation == InitDictation /\ [][NextDictation]_vars

(***************************************************************************)
(* The overlap scenario: initialize() and startListening() calls overlap   *)
(* each other and destroy() while they await the permission probe or       *)
(* prompt.                                                                 *)
(***************************************************************************)
InitOverlap ==
  /\ platform \in [isIOS : BOOLEAN, hasSpeechAPI : {TRUE}]
  /\ scope = OverlapScope
  /\ config = InitConfig
  /\ status = InitStatus
  /\ isInitialized = FALSE
  /\ recognitionService = 0
  /\ callbacks = [result |-> <<0>>, error |-> <<0>>, status |-> <<0>>]
  /\ sessions = <<>>
  /\ timers = {}
  /\ calls = [p \in Calls |-> IdleCall]
  /\ epoch = 0
  /\ results = <<>>
  /\ emitted = <<>>
  /\ event = NoEvent
  /\ fired = <<>>
  /\ held = <<>>

NextOverlap ==
  \/ \E p \in Calls : CallInitialize(p)
  \/ \E p \in Calls : CallStartListening(p)
  \/ \E p \in Calls : CallToggleListening(p)
  \/ \E p \in Calls, b \in BOOLEAN : ResolveProbe(p, b)
  \/ \E p \in Calls, b \in BOOLEAN : ResolveGetUserMedia(p, b)
  \/ \E p \in Calls, b \in BOOLEAN : ResolveAudioInit(p, b)
  \/ \E fails \in scope.stopFails : CallStopListening(fails)
  \/ CallDestroy
  \/ \E s \in 1..Len(sessions) : EngineStart(s)
  \/ \E s \in 1..Len(sessions), code \in scope.codes : EngineError(s, code)
  \/ \E s \in 1..Len(sessions) : EngineEnd(s)

SpecOverlap == InitOverlap /\ [][NextOverlap]_vars

(***************************************************************************)
(* The observer scenario: an application that has subscribed configures    *)
(* the Controller, selects languages and watches the status and the error  *)
(* log across failures and destroy().                                      *)
(***************************************************************************)
InitObserver ==
  /\ platform \in [isIOS : BOOLEAN, hasSpeechAPI : BOOLEAN]
  /\ scope = ObserverScope
  /\ config \in [language : {InitConfig.language}, continuous : BOOLEAN]
  /\ status = InitStatus
  /\ isInitialized = FALSE
  /\ recognitionService = 0
  /\ callbacks = [result |-> <<0>>, error |-> <<0>>, status |-> <<0>>]
  /\ sessions = <<>>
  /\ timers = {}
  /\ calls = [p \in Calls |-> IdleCall]
  /\ epoch = 0
  /\ results = <<>>
  /\ emitted = <<>>
  /\ event = NoEvent
  /\ fired = <<>>
  /\ held = <<>>

NextObserver ==
  \/ \E p \in Calls : CallInitialize(p)
  \/ \E p \in Calls : CallStartListening(p)
  \/ \E p \in Calls, b \in BOOLEAN : ResolveProbe(p, b)
  \/ \E p \in Calls, b \in BOOLEAN : ResolveGetUserMedia(p, b)
  \/ \E p \in Calls, b \in BOOLEAN : ResolveAudioInit(p, b)
  \/ \E fails \in scope.stopFails : CallStopListening(fails)
  \/ CallDestroy
  \/ Subscribe
  \/ \E language \in scope.languages : CallSetLanguage(language)
  \/ \E s \in 1..Len(sessions) : EngineStart(s)
  \/ \E s \in 1..Len(sessions), code \in scope.codes : EngineError(s, code)
  \/ \E s \in 1..Len(sessions) : EngineEnd(s)

SpecObserver == InitObserver /\ [][NextObserver]_vars

(***************************************************************************)
(* The snapshot scenario: a subscribed application keeps snapshots that    *)
(* getStatus() returned while the Controller goes on logging errors.       *)
(***************************************************************************)
InitSnapshot ==
  /\ platform \in [isIOS : BOOLEAN, hasSpeechAPI : BOOLEAN]
  /\ scope = SnapshotScope
  /\ config = InitConfig
  /\ status = InitStatus
  /\ isInitialized = FALSE
  /\ recognitionService = 0
  /\ callbacks = [result |-> <<0>>, error |-> <<0>>, status |-> <<0>>]
  /\ sessions = <<>>
  /\ timers = {}
  /\ calls = [p \in Calls |-> IdleCall]
  /\ epoch = 0
  /\ results = <<>>
  /\ emitted = <<>>
  /\ event = NoEvent
  /\ fired = <<>>
  /\ held = <<>>

NextSnapshot ==
  \/ \E p \in Calls : CallInitialize(p)
  \/ \E p \in Calls : CallStartListening(p)
  \/ \E p \in Calls, b \in BOOLEAN : ResolveProbe(p, b)
  \/ \E p \in Calls, b \in BOOLEAN : ResolveGetUserMedia(p, b)
  \/ \E p \in Calls, b \in BOOLEAN : ResolveAudioInit(p, b)
  \/ \E fails \in scope.stopFails : CallStopListening(fails)
  \/ CallGetStatus
  \/ \E s \in 1..Len(sessions) : EngineStart(s)
  \/ \E s \in 1..Len(sessions), code \in scope.codes : EngineError(s, code)
  \/ \E s \in 1..Len(sessions) : EngineEnd(s)

SpecSnapshot == InitSnapshot /\ [][NextSnapshot]_vars

(***************************************************************************)
(* The demo scenario: the demo application, subscribed, starts and stops   *)
(* listening and switches its continuous-mode checkbox while the user      *)
(* dictates.  After the engine's stop() was called or it signalled an      *)
(* error, the engine signals its end.                                      *)
(***************************************************************************)
InitDemo ==
  /\ platform \in [isIOS : BOOLEAN, hasSpeechAPI : {TRUE}]
  /\ scope = DemoScope
  /\ config \in [language : {InitConfig.language}, continuous : BOOLEAN]
  /\ status = InitStatus
  /\ isInitialized = FALSE
  /\ recognitionService = 0
  /\ callbacks = [result |-> <<0>>, error |-> <<0>>, status |-> <<0>>]
  /\ sessions = <<>>
  /\ timers = {}
  /\ calls = [p \in Calls |-> IdleCall]
  /\ epoch = 0
  /\ results = <<>>
  /\ emitted = <<>>
  /\ event = NoEvent
  /\ fired = <<>>
  /\ held = <<>>

NextDemo ==
  \/ \E p \in Calls : CallStartListening(p)
  \/ \E p \in Calls, b \in BOOLEAN : ResolveProbe(p, b)
  \/ \E p \in Calls, b \in BOOLEAN : ResolveGetUserMedia(p, b)
  \/ \E p \in Calls, b \in BOOLEAN : ResolveAudioInit(p, b)
  \/ \E fails \in scope.stopFails : CallStopListening(fails)
  \/ \E b \in BOOLEAN : CallSetContinuous(b)
  \/ \E s \in 1..Len(sessions) : EngineStart(s)
  \/ \E s \in 1..Len(sessions), raw \in scope.vocab, c \in scope.confidences,
          f \in BOOLEAN :
       EngineResult(s, raw, c, f)
  \/ \E s \in 1..Len(sessions), code \in scope.codes : EngineError(s, code)
  \/ \E s \in 1..Len(sessions) : EngineEnd(s)
  \/ \E t \in timers : TimerFire(t)
  \/ TickTime

\* the engine's end after stop() or an error
EngineEndsOnceStopped ==
  \E s \in 1..Len(sessions) :
    sessions[s].engine.state \in {"stopping", "ending"} /\ EngineEnd(s)

SpecDemo == InitDemo /\ [][NextDemo]_vars /\ WF_vars(EngineEndsOnceStopped)

(***************************************************************************)
(* The cleaning scenario: the dictation scenario with the transcripts that *)
(* exercise the cleaning transform.                                        *)
(***************************************************************************)
InitCleaning ==
  /\ platform \in [isIOS : BOOLEAN, hasSpeechAPI : {TRUE}]
  /\ scope = CleaningScope
  /\ config = InitConfig
  /\ status = InitStatus
  /\ isInitialized = FALSE
  /\ recognitionService = 0
  /\ callbacks = [result |-> <<0>>, error |-> <<0>>, status |-> <<0>>]
  /\ sessions = <<>>
  /\ timers = {}
  /\ calls = [p \in Calls |-> IdleCall]
  /\ epoch = 0
  /\ results = <<>>
  /\ emitted = <<>>
  /\ event = NoEvent
  /\ fired = <<>>
  /\ held = <<>>

SpecCleaning == InitCleaning /\ [][NextDictation]_vars

(***************************************************************************)
(* The last-stop scenario: the user starts and stops listening.  The       *)
(* engine is fair: it answers start() with its start signal unless it      *)
(* fails, and stop() or a failure with its end signal.                     *)
(***************************************************************************)
InitStop ==
  /\ platform \in [isIOS : BOOLEAN, hasSpeechAPI : {TRUE}]
  /\ scope = StopScope
  /\ config = InitConfig
  /\ status = InitStatus
  /\ isInitialized = FALSE
  /\ recognitionService = 0
  /\ callbacks = [result |-> <<0>>, error |-> <<0>>, status |-> <<0>>]
  /\ sessions = <<>>
  /\ timers = {}
  /\ calls = [p \in Calls |-> IdleCall]
  /\ epoch = 0
  /\ results = <<>>
  /\ emitted = <<>>
  /\ event = NoEvent
  /\ fired = <<>>
  /\ held = <<>>

NextStop ==
  \/ \E p \in Calls : CallStartListening(p)
  \/ \E p \in Calls, b \in BOOLEAN : ResolveProbe(p, b)
  \/ \E p \in Calls, b \in BOOLEAN : ResolveGetUserMedia(p, b)
  \/ \E p \in Calls, b \in BOOLEAN : ResolveAudioInit(p, b)
  \/ \E fails \in scope.stopFails : CallStopListening(fails)
  \/ \E s \in 1..Len(sessions) : EngineStart(s)
  \/ \E s \in 1..Len(sessions), code \in scope.codes : EngineError(s, code)
  \/ \E s \in 1..Len(sessions) : EngineEnd(s)

\* the engine's start signal after start()
EngineStartsOnceAsked == \E s \in 1..Len(sessions) : EngineStart(s)

SpecStop ==
  /\ InitStop
  /\ [][NextStop]_vars
  /\ WF_vars(EngineStartsOnceAsked)
  /\ WF_vars(EngineEndsOnceStopped)


(***************************************************************************)
(* The repetition scenario: the user starts listening once and the engine  *)
(* never ends, so every result belongs to one listening session.           *)
(***************************************************************************)
InitRepeat ==
  /\ platform \in [isIOS : BOOLEAN, hasSpeechAPI : {TRUE}]
  /\ scope = RepeatScope
  /\ config = InitConfig
  /\ status = InitStatus
  /\ isInitialized = FALSE
  /\ recognitionService = 0
  /\ callbacks = [result |-> <<0>>, error |-> <<0>>, status |-> <<0>>]
  /\ sessions = <<>>
  /\ timers = {}
  /\ calls = [p \in Calls |-> IdleCall]
  /\ epoch = 0
  /\ results = <<>>
  /\ emitted = <<>>
  /\ event = NoEvent
  /\ fired = <<>>
  /\ held = <<>>

NextRepeat ==
  \/ \E p \in Calls : CallStartListening(p)
  \/ \E p \in Calls, b \in BOOLEAN : ResolveProbe(p, b)
  \/ \E p \in Calls, b \in BOOLEAN : ResolveGetUserMedia(p, b)
  \/ \E p \in Calls, b \in BOOLEAN : ResolveAudioInit(p, b)
  \/ \E s \in 1..Len(sessions) : EngineStart(s)
  \/ \E s \in 1..Len(sessions), raw \in scope.vocab, c \in scope.confidences,
          f \in BOOLEAN :
       EngineResult(s, raw, c, f)
  \/ \E t \in timers : TimerFire(t)
  \/ TickTime

SpecRepeat == InitRepeat /\ [][NextRepeat]_vars

(***************************************************************************)
(* Properties.                                                             *)
(***************************************************************************)
\* the last step took the code path marked what
InLog(what) ==
  /\ "log" \in DOMAIN event
  /\ \E i \in 1..Len(event.log) : event.log[i] = what

\* the number of subscriptions in list that were made in the same period
\* between destroy() calls as l, whose invocations carry the same mark
Subscriptions(list, l) == Cardinality({i \in 1..Len(list) : list[i] = l})

\* the RecognitionResults the Session handed to its onResult callback in the last step
SessionResults == SelectSeq(fired, LAMBDA f : f.layer = "session" /\ f.kind = "result")

\* the RecognitionResults listener l of the Controller received in the last step
ListenerResults(l) ==
  SelectSeq(fired, LAMBDA f : f.layer = "controller" /\ f.kind = "result" /\ f.listener = l)

\* final result i was followed, less than DEBOUNCE_DELAY later, by another
\* final result of the same session
Superseded(i) ==
  \E j \in (i + 1)..Len(results) :
    /\ results[j].sid = results[i].sid
    /\ \A k \in (i + 1)..(j - 1) : results[k].sid # results[i].sid
    /\ results[j].gap < DEBOUNCE_DELAY

\* the near-duplicate condition of the specification, on two raw texts
NearDuplicateTexts(new, previous) ==
  LET n == normalizeText(new)
      p == normalizeText(previous) IN
    p # <<>> /\ includes(n, p) /\ Len(n) - Len(p) < 10

\* C1: of the final results that arrive less than 300 ms one after the other,
\* only the last is ever emitted, at most once, with its own transcript
\* (cleaned) and confidence, and no earlier than 300 ms after it arrived.
C1_DebounceEmitsLastOnly ==
  /\ \A k \in 1..Len(emitted) :
       LET e == emitted[k]
           r == results[e.src] IN
         /\ ~Superseded(e.src)
         /\ e.result.isFinal
         /\ e.result.transcript = cleanText(trim(r.raw))
         /\ e.result.confidence = r.confidence
         /\ e.waited >= DEBOUNCE_DELAY
  /\ \A j, k \in 1..Len(emitted) : j # k => emitted[j].src # emitted[k].src

\* two final results with different transcripts and confidences arrived
\* within the window, and the second has been emitted
C1_Witness ==
  /\ Len(results) >= 2
  /\ results[2].gap < DEBOUNCE_DELAY
  /\ results[1].raw # results[2].raw
  /\ results[1].confidence # results[2].confidence
  /\ event.op = "timer"
  /\ \E k \in 1..Len(emitted) : emitted[k].src = 2

\* C2: when the debounce timer fires for a transcript that is a near
\* duplicate of the recorded last final text, nothing is emitted and the
\* recorded text is left as it was.
C2_NearDuplicateSuppressed ==
  (event.op = "timer" /\ NearDuplicateTexts(event.transcript, event.last))
    => /\ fired = <<>>
       /\ emitted = SelectSeq(emitted, LAMBDA e : e.src # event.id)
       /\ sessions[event.sid].lastFinalResult = event.last

\* the example of the specification: "привет как дела сегодня" after
\* "Привет как дела"
C2_Witness ==
  /\ event.op = "timer"
  /\ event.transcript = T_PrivetKakDelaSegodnya
  /\ event.last = cleanText(T_PrivetKakDela)
  /\ NearDuplicateTexts(event.transcript, event.last)
  /\ fired = <<>>

\* C3: when the debounce timer of a subscribed Session fires for a transcript
\* that is no near duplicate of the recorded last final text, exactly one
\* final result carrying the cleaned transcript is emitted, and the cleaned
\* transcript becomes the recorded last final text.
C3_DistinctFinalEmitted ==
  (/\ event.op = "timer"
   /\ sessions[event.sid].onResultCallback
   /\ ~NearDuplicateTexts(event.transcript, event.last))
    => /\ Len(SessionResults) = 1
       /\ SessionResults[1].payload.isFinal
       /\ SessionResults[1].payload.transcript = cleanText(event.transcript)
       /\ \A i \in 1..Len(callbacks.result) :
            Len(ListenerResults(callbacks.result[i]))
              = Subscriptions(callbacks.result, callbacks.result[i])
       /\ sessions[event.sid].lastFinalResult = cleanText(event.transcript)

\* the example of the specification: "Как дела" after "Привет"
C3_Witness ==
  /\ event.op = "timer"
  /\ event.transcript = trim(T_KakDela)
  /\ normalizeText(event.last) = normalizeText(T_Privet)
  /\ Len(SessionResults) = 1
  /\ Len(callbacks.result) > 0

\* C4: an interim engine result is emitted by a subscribed Session in the
\* step that handles it, exactly once, as a non-final result carrying the
\* cleaned transcript and the engine's confidence, whatever the recorded
\* last final text is.
C4_InterimEmittedAtOnce ==
  (/\ event.op = "engine:result"
   /\ ~event.isFinal
   /\ sessions[event.sid].onResultCallback)
    => /\ Len(SessionResults) = 1
       /\ SessionResults[1].payload =
            [transcript |-> cleanText(trim(event.raw)),
             confidence |-> event.confidence, isFinal |-> FALSE]
       /\ \A i \in 1..Len(callbacks.result) :
            Len(ListenerResults(callbacks.result[i]))
              = Subscriptions(callbacks.result, callbacks.result[i])

\* an interim result that repeats the recorded last final text is emitted
C4_Witness ==
  /\ event.op = "engine:result"
  /\ ~event.isFinal
  /\ NearDuplicateTexts(trim(event.raw), sessions[event.sid].lastFinalResult)
  /\ cleanText(trim(event.raw)) # trim(event.raw)
  /\ Len(SessionResults) = 1
  /\ Len(callbacks.result) > 0

\* the step was an engine signal or a timer expiry
EngineOrTimerStep ==
  event.op \in {"engine:start", "engine:result", "engine:error", "engine:end", "timer"}

\* C5: once the Controller has handled an error signal of its Session's
\* engine, status.isListening is false, in the status it holds and in every
\* snapshot it broadcasts while handling the signal.
C5_ErrorClearsListening ==
  (event.op = "engine:error" /\ event.sid = recognitionService)
    => /\ ~status.isListening
       /\ \A i \in 1..Len(fired) :
            fired[i].kind = "status" => ~fired[i].payload.isListening

\* C6: the debounce timer of a final result that was pending when the
\* Session was stopped never hands a result to a listener.
C6_StopDiscardsPending ==
  (event.op = "timer" /\ event.stopped) => fired = <<>>

\* C7: after destroy(), no engine signal and no timer expiry invokes a
\* result, error or status callback registered before that destroy(), on
\* the Controller or on a Session.
C7_NoCallbackAfterDestroy ==
  EngineOrTimerStep
    => \A i \in 1..Len(fired) :
         fired[i].kind \in {"result", "error", "status"} => fired[i].listener >= epoch

\* C8: whenever startListening() reaches the Session's start(), either the
\* Controller's status says the permission is held, or the step is the one in
\* which the call's own access request completed as granted.
C8_StartOnlyWithPermission ==
  InLog("session.start")
    => \/ status.hasPermission
       \/ event.op = "resolve:audioInit" /\ event.answer

\* on the restrictive platform, where initialize() makes no probe, a
\* startListening() call starts the engine when its access request is granted
C8_Witness ==
  /\ platform.isIOS
  /\ event.op = "resolve:audioInit"
  /\ event.answer
  /\ InLog("engine.start")

\* C9: when the user declines the prompt of a startListening() call, the call
\* throws, the Session's start() is not reached, and the status says neither
\* hasPermission nor isListening.
C9_DeclineRejects ==
  (event.op = "resolve:getUserMedia" /\ ~event.answer)
    => /\ InLog("throw:denied")
       /\ calls[event.call].pc = "idle"
       /\ ~InLog("session.start")
       /\ ~InLog("engine.start")
       /\ ~status.hasPermission
       /\ ~status.isListening

\* the prompt of a startListening() call on an initialised Controller is declined
C9_Witness ==
  /\ event.op = "resolve:getUserMedia"
  /\ ~event.answer
  /\ isInitialized
  /\ recognitionService # 0
  /\ InLog("throw:denied")

\* C10: a start() of a Session that is listening does not call the engine's
\* start() and invokes none of the Session's callbacks.
C10_StartWhileListeningNoOp ==
  (/\ InLog("session.start")
   /\ recognitionService # 0
   /\ sessions[recognitionService].isListening)
    => /\ ~InLog("engine.start")
       /\ ~InLog("engine.start.threw")
       /\ \A i \in 1..Len(fired) : fired[i].layer # "session"

\* start() was called on a listening Session
C10_Witness ==
  /\ InLog("session.start")
  /\ recognitionService # 0
  /\ sessions[recognitionService].isListening
  /\ ~InLog("engine.start")

\* the errors the Session handed to its onError callback in the last step
SessionErrors == SelectSeq(fired, LAMBDA f : f.layer = "session" /\ f.kind = "error")

\* the errors listener l of the Controller received in the last step
ListenerErrors(l) ==
  SelectSeq(fired, LAMBDA f : f.layer = "controller" /\ f.kind = "error" /\ f.listener = l)

\* C11: when the engine's start() fails synchronously inside a
\* startListening() call, the Session reports exactly one error, of kind
\* aborted, and stays not-listening; the call returns without throwing and
\* the aborted error is the newest entry of status.errors.
C11_StartFailureReported ==
  InLog("engine.start.threw")
    => /\ Len(SessionErrors) = 1
       /\ SessionErrors[1].payload = "aborted"
       /\ \A i \in 1..Len(callbacks.error) :
            /\ Len(ListenerErrors(callbacks.error[i]))
                 = Subscriptions(callbacks.error, callbacks.error[i])
            /\ ListenerErrors(callbacks.error[i])[1].payload.type = "aborted"
       /\ ~sessions[recognitionService].isListening
       /\ InLog("return")
       /\ ~InLog("throw:start")
       /\ \A p \in Calls : calls[p].pc = "idle" \/ event.call # p
       /\ status.errors # <<>>
       /\ status.errors[Len(status.errors)].type = "aborted"

\* a second startListening() finds the engine started but not yet running,
\* and an error listener is subscribed
C11_Witness ==
  /\ InLog("engine.start.threw")
  /\ event.op = "startListening"
  /\ sessions[recognitionService].engine.state = "starting"
  /\ callbacks.error # <<>>
  /\ Len(SessionErrors) = 1

\* C12: a stop() of a Session that is not listening does not call the
\* engine's stop() and changes nothing; a stop() of a listening Session
\* calls the engine's stop() and, whether that call fails or not, throws
\* nothing, invokes no callback and leaves the Controller's status alone.
C12_StopBestEffort ==
  [][(event'.op = "stopListening" /\ InLog("session.stop")')
       => /\ fired' = <<>>
          /\ status' = status
          /\ callbacks' = callbacks
          /\ recognitionService' = recognitionService
          /\ IF sessions[recognitionService].isListening
             THEN /\ InLog("engine.stop")'
                  /\ sessions'[recognitionService].isListening
                  /\ event'.threw => sessions' = sessions
             ELSE /\ ~InLog("engine.stop")'
                  /\ sessions' = sessions
                  /\ timers' = timers]_vars

\* stopListening() reached stop() on a Session that an engine error had
\* already marked not-listening
C12_Witness ==
  /\ event.op = "stopListening"
  /\ InLog("session.stop")
  /\ ~InLog("engine.stop")
  /\ ~sessions[recognitionService].isListening

\* the engine's stop() failed inside stopListening()
C12_StopFailed ==
  /\ event.op = "stopListening"
  /\ event.threw
  /\ InLog("engine.stop.threw")

\* the status snapshots listener l received in the last step
ListenerStatuses(l) ==
  SelectSeq(fired, LAMBDA f : f.layer = "controller" /\ f.kind = "status" /\ f.listener = l)

\* C13: stopListening() itself never changes or broadcasts the status, a
\* second stopListening() on an engine that is already stopping changes
\* nothing, and status.isListening goes from true to false only in the
\* engine's end signal (or destroy()), which broadcasts it once to every
\* status listener.
C13_StopTwiceOneTransition ==
  [][/\ event'.op = "stopListening" => (status' = status /\ fired' = <<>>)
     /\ (event'.op = "stopListening" /\ EngineState = "stopping")
          => (sessions' = sessions /\ recognitionService' = recognitionService)
     /\ (status.isListening /\ ~status'.isListening)
          => event'.op \in {"engine:end", "destroy"}
     /\ (status.isListening /\ ~status'.isListening /\ event'.op = "engine:end")
          => \A i \in 1..Len(callbacks.status) :
               /\ Len(ListenerStatuses(callbacks.status[i])')
                    = Subscriptions(callbacks.status, callbacks.status[i])
               /\ ~ListenerStatuses(callbacks.status[i])'[1].payload.isListening]_vars

\* stopListening() was called again while the engine was stopping and the
\* status still said listening
C13_Witness ==
  /\ event.op = "stopListening"
  /\ event.was = "stopping"
  /\ ~event.threw
  /\ InLog("engine.stop")
  /\ status.isListening
  /\ callbacks.status # <<>>

\* C14: an initialize() call on an initialized Controller constructs no
\* Session, suspends for no permission probe, changes no status field and
\* broadcasts nothing.
C14_InitializeIdempotent ==
  [][(event'.op = "initialize" /\ isInitialized)
       => /\ sessions' = sessions
          /\ recognitionService' = recognitionService
          /\ isInitialized'
          /\ status' = status
          /\ calls' = calls
          /\ callbacks' = callbacks
          /\ fired' = <<>>]_vars

\* initialize() was called again on a platform where the first call probed
\* the permission, with a status listener subscribed
C14_Witness ==
  /\ event.op = "initialize"
  /\ InLog("initialize:already")
  /\ isInitialized
  /\ ~platform.isIOS
  /\ callbacks.status # <<>>

\* C15: on the restrictive platform no call is ever suspended in the
\* permission probe, a constructing initialize() completes at once with
\* status.hasPermission false, and on every platform only startListening()
\* calls are ever suspended in the access request.
C15_NoProbeOnRestrictivePlatform ==
  /\ \A p \in Calls :
       calls[p].pc \in {"req_gum", "req_audio"} => calls[p].op = "startListening"
  /\ event.op = "initialize" => ~InLog("await:getUserMedia")
  /\ platform.isIOS =>
       /\ \A p \in Calls : calls[p].pc # "init_probe"
       /\ ~InLog("await:checkMicrophonePermission")
       /\ InLog("new Session") => ~status.hasPermission
       /\ event.op = "initialize" => calls[event.call].pc = "idle"

\* on the restrictive platform the Controller is initialized again after a
\* destroy()
C15_Witness ==
  /\ platform.isIOS
  /\ event.op = "initialize"
  /\ InLog("new Session")
  /\ epoch > 0
  /\ isInitialized
  /\ ~status.hasPermission

\* C16: on a host without the recognition capability an initialize() call,
\* alone or made by startListening(), throws, constructs no Session, leaves
\* the Controller uninitialized and not listening, and appends exactly one
\* error, which every status listener receives in one broadcast.
C16_NoCapabilityFails ==
  [][(event'.op \in {"initialize", "startListening"} /\ ~platform.hasSpeechAPI)
       => /\ InLog("throw:initialize")'
          /\ ~InLog("new Session")'
          /\ sessions' = <<>>
          /\ recognitionService' = 0
          /\ ~isInitialized'
          /\ ~status'.isInitialized
          /\ ~status'.isListening
          /\ calls' = calls
          /\ status'.errors = Append(status.errors, [type |-> "service-not-allowed"])
          /\ \A i \in 1..Len(callbacks.status) :
               /\ Len(ListenerStatuses(callbacks.status[i])')
                    = Subscriptions(callbacks.status, callbacks.status[i])
               /\ ErrorsOf(ListenerStatuses(callbacks.status[i])[1].payload)'
                    = status'.errors]_vars

\* a second initialize() on the host without the capability failed again,
\* with a status listener subscribed
C16_Witness ==
  /\ ~platform.hasSpeechAPI
  /\ event.op = "initialize"
  /\ InLog("throw:initialize")
  /\ Len(status.errors) = 2
  /\ ~isInitialized
  /\ Len(SelectSeq(fired, LAMBDA f : f.kind = "status")) = 1

\* C17: the Session constructed in the last step has continuous and
\* interimResults both off on the restrictive platform and both on on any
\* other platform, whatever config.continuous asks for.
C17_PlatformOverride ==
  InLog("new Session")
    => LET engine == sessions[Len(sessions)].engine IN
         /\ engine.continuous = ~platform.isIOS
         /\ engine.interimResults = ~platform.isIOS

\* a Session was constructed on the restrictive platform for a Controller
\* configured with continuous = true
C17_Witness ==
  /\ InLog("new Session")
  /\ platform.isIOS
  /\ config.continuous
  /\ ~sessions[Len(sessions)].engine.continuous
  /\ ~sessions[Len(sessions)].engine.interimResults

\* a Session was constructed on another platform for a Controller configured
\* with continuous = false
C17_ConfigIgnored ==
  /\ InLog("new Session")
  /\ ~platform.isIOS
  /\ ~config.continuous
  /\ sessions[Len(sessions)].engine.continuous

\* C18: a snapshot that getStatus() returned does not change afterwards: its
\* errors sequence reads as it did when the snapshot was taken.
C18_SnapshotIsCopy ==
  \A i \in 1..Len(held) : ErrorsOf(held[i].snapshot) = held[i].seen

\* every status listener subscribed before the step received, in the step, a
\* snapshot of the status the step ended with
BroadcastToAll ==
  \A i \in 1..Len(callbacks.status) :
    \E j \in 1..Len(fired') :
      fired'[j] = Invoke("controller", "status", callbacks.status[i], getStatus(status'))

\* the step completed its operation: it left no call suspended
OperationCompleted == \A p \in Calls : calls'[p].pc = "idle"

\* C19: every completed operation or engine event that changes a status
\* field broadcasts the resulting status to every status listener that was
\* subscribed when it began.
C19_EveryChangeBroadcast ==
  [][(status' # status /\ OperationCompleted) => BroadcastToAll]_vars

\* the same, of every operation and event but destroy()
C19_EveryChangeButDestroyBroadcast ==
  [][(status' # status /\ OperationCompleted /\ event'.op # "destroy")
       => BroadcastToAll]_vars

IsPrefix(a, b) == Len(a) <= Len(b) /\ SubSeq(b, 1, Len(a)) = a

\* C20: no step removes or rewrites an entry of status.errors: the log
\* before a step is a prefix of the log after it.
C20_ErrorLogAppendOnly ==
  [][IsPrefix(status.errors, status'.errors)]_vars

\* two different errors are in the log of a Controller that was destroyed and
\* initialized again
C20_Witness ==
  /\ epoch > 0
  /\ isInitialized
  /\ Len(status.errors) = 2
  /\ status.errors[1].type # status.errors[2].type


\* C21: an error signal of the engine of a Session that has not been
\* destroyed, handled while the Controller is initialized, throws into no
\* call; it appends exactly one entry, the mapped error, to status.errors,
\* then broadcasts the status to every status listener, then hands the error
\* once to every error listener.
C21_EngineErrorDelivered ==
  [][(event'.op = "engine:error" /\ isInitialized /\ sessions[event'.sid].onErrorCallback)
       => LET error == [type |-> mapErrorCode(event'.code)]
              n == Len(callbacks.status)
              m == Len(callbacks.error) IN
            /\ status'.errors = Append(status.errors, error)
            /\ event'.log = <<>>
            /\ calls' = calls
            /\ Len(fired') = 1 + n + m
            /\ fired'[1] = Invoke("session", "error", sessions[event'.sid].epoch, error.type)
            /\ \A i \in 1..n :
                 fired'[1 + i] = Invoke("controller", "status", callbacks.status[i],
                                        getStatus(status'))
            /\ \A i \in 1..m :
                 fired'[1 + n + i] = Invoke("controller", "error", callbacks.error[i], error)]_vars

\* an error code the Session does not know arrived while a status listener
\* and an error listener were subscribed to the initialized Controller
C21_Witness ==
  /\ event.op = "engine:error"
  /\ event.code = "engine-specific"
  /\ isInitialized
  /\ event.sid = recognitionService
  /\ callbacks.status # <<>>
  /\ callbacks.error # <<>>
  /\ Len(fired) = 3
  /\ fired[2].kind = "status"
  /\ fired[3].kind = "error"
  /\ status.errors = <<[type |-> "network"]>>


\* the last step was a debounce timer's expiry that handed a final result to
\* a result listener of the Controller
FinalDelivered ==
  /\ event.op = "timer"
  /\ \E i \in 1..Len(fired) :
       fired[i].layer = "controller" /\ fired[i].kind = "result" /\ fired[i].payload.isFinal

\* C22: when a final result is delivered to the demo application while the
\* status says listening and continuous mode is off, the application stops
\* listening in the same step, so that the engine is stopping or ending, and
\* status.isListening becomes false afterwards; when continuous mode is on or
\* the status does not say listening, the delivery calls no stop.
C22_AutoStopAfterPhrase ==
  /\ [](FinalDelivered
          => IF ~config.continuous /\ status.isListening
             THEN /\ InLog("auto-stop")
                  /\ InLog("session.stop")
                  /\ EngineState \in {"stopping", "ending"}
             ELSE /\ ~InLog("auto-stop")
                  /\ ~InLog("session.stop")
                  /\ ~InLog("engine.stop"))
  /\ (FinalDelivered /\ ~config.continuous /\ status.isListening) ~> ~status.isListening

\* a final result was delivered with continuous mode off while the engine
\* was running, and the engine's stop() was called
C22_Witness ==
  /\ FinalDelivered
  /\ ~config.continuous
  /\ status.isListening
  /\ InLog("auto-stop")
  /\ InLog("engine.stop")
  /\ EngineState = "stopping"

\* a final result was delivered with continuous mode on while the engine was
\* running, and the engine went on running
C22_ContinuousKeepsListening ==
  /\ FinalDelivered
  /\ config.continuous
  /\ status.isListening
  /\ EngineState = "running"


\* C23: when the debounce timer of the first final result that a Session
\* received after an onstart expires, the last-final text it is compared
\* against is empty.
C23_FirstFinalComparedToNothing ==
  (event.op = "timer" /\ event.first) => event.last = <<>>

\* the first final result of a listening session was suppressed as a
\* near-duplicate
C23_FirstFinalSuppressed ==
  /\ event.op = "timer"
  /\ event.first
  /\ InLog("suppressed")


\* the transcript, as handleResult() trimmed it, that the result handed out
\* in the last step was cleaned from
CleanedFrom ==
  IF event.op = "timer" THEN event.transcript ELSE trim(event.raw)

\* the last step handed a result to the Session's onResult callback
ResultHandedOut ==
  /\ event.op \in {"timer", "engine:result"}
  /\ SessionResults # <<>>

IsUpperCase(c) == c \in 65..90 \/ c \in 1040..1071 \/ c = 1025
IsLetter(c) == IsUpperCase(c) \/ c \in 97..122 \/ c \in 1072..1103 \/ c = 1105

\* C24: the result cleaned from "скажи мне сколько будет два плюс два" reads
\* "Сколько будет два плюс два?", and every cleaned transcript that starts
\* with a letter starts with an upper-case letter.
C24_LeadInStrippedAndCapitalized ==
  ResultHandedOut
    => LET transcript == SessionResults[1].payload.transcript IN
         /\ CleanedFrom = T_SkazhiMneSkolko
              => transcript = <<1057, 1082, 1086, 1083, 1100, 1082, 1086, 32,
                                1073, 1091, 1076, 1077, 1090, 32, 1076, 1074, 1072, 32,
                                1087, 1083, 1102, 1089, 32, 1076, 1074, 1072, 63>>
         /\ (transcript # <<>> /\ IsLetter(transcript[1])) => IsUpperCase(transcript[1])

\* the result cleaned from "скажи мне сколько будет два плюс два" reads
\* "сколько будет два плюс два?"
C24_LowerCaseResult ==
  /\ ResultHandedOut
  /\ CleanedFrom = T_SkazhiMneSkolko
  /\ SessionResults[1].payload.transcript
       = <<1089, 1082, 1086, 1083, 1100, 1082, 1086, 32,
           1073, 1091, 1076, 1077, 1090, 32, 1076, 1074, 1072, 32,
           1087, 1083, 1102, 1089, 32, 1076, 1074, 1072, 63>>

\* the number of terminal marks in a text
Marks(text) == Len(SelectSeq(text, LAMBDA c : c \in TerminalChars))

\* C25: a cleaned transcript ends in a terminal mark; it has the marks of the
\* text left after the lead-in and no other when that text ends in one, and
\* otherwise one more, at its end: '?' when a question cue matches, else '!'
\* when an exclamation cue matches, else '.'; "сделай громче" is cleaned to
\* "Сделай громче!".
C25_TerminalPunctuation ==
  ResultHandedOut
    => LET transcript == SessionResults[1].payload.transcript
           text == stripLeadIn(CleanedFrom)
           last == transcript[Len(transcript)] IN
         /\ endsWithTerminal(transcript)
         /\ IF endsWithTerminal(text)
            THEN Marks(transcript) = Marks(text) /\ last = text[Len(text)]
            ELSE /\ Marks(transcript) = Marks(text) + 1
                 /\ last = IF isQuestion(text) THEN 63
                           ELSE IF isExclamation(text) THEN 33
                           ELSE 46
         /\ CleanedFrom = T_SdelajGromche
              => transcript = <<1057, 1076, 1077, 1083, 1072, 1081, 32,
                                1075, 1088, 1086, 1084, 1095, 1077, 33>>

\* a transcript that matches a question cue and an exclamation cue was
\* cleaned, and got the question mark
C25_Witness ==
  /\ ResultHandedOut
  /\ CleanedFrom = T_SdelajKak
  /\ isQuestion(CleanedFrom)
  /\ isExclamation(CleanedFrom)
  /\ SessionResults[1].payload.transcript = <<1057>> \o Tail(T_SdelajKak) \o <<63>>

\* a transcript that ends in a terminal mark was cleaned and got no other
C25_AlreadyTerminated ==
  /\ ResultHandedOut
  /\ CleanedFrom = T_PrivetExcl
  /\ SessionResults[1].payload.transcript = T_PrivetExcl


\* the step threw into its caller
Threw == \E i \in 1..Len(event.log) :
           event.log[i] \in {"throw:initialize", "throw:not-initialized", "throw:start",
                             "throw:denied", "throw:destroy"}

\* C26: every destroy() returns without throwing and leaves the Controller
\* uninitialized, not listening, without a Session and without registered
\* callbacks; a destroy() of a Controller that has no Session touches no
\* Session, timer or callback; and a destroy() of a Session that was
\* destroyed before, with its engine's end signal arrived or not, would
\* leave the Session as it is and invoke no callback.
C26_DestroyTwice ==
  [][event'.op = "destroy"
       => /\ ~Threw'
          /\ ~isInitialized'
          /\ ~status'.isInitialized
          /\ ~status'.isListening
          /\ recognitionService' = 0
          /\ callbacks' = InitCallbacks
          /\ calls' = calls
          /\ recognitionService = 0
               => (sessions' = sessions /\ timers' = timers /\ fired' = <<>>)
          /\ \A s \in 1..Len(sessions') :
               ~sessions'[s].recognition
                 => LET again == SessionDestroy(World, s)' IN
                      /\ again.sessions = sessions'
                      /\ again.fired = <<>>
                      /\ again.status = status'
                      /\ again.callbacks = callbacks']_vars

\* destroy() was called on a Controller whose only Session an earlier
\* destroy() had destroyed, before that Session's engine signalled its end
C26_Witness ==
  /\ event.op = "destroy"
  /\ epoch = 2
  /\ Len(sessions) = 1
  /\ ~sessions[1].recognition
  /\ sessions[1].engine.state = "stopping"
  /\ sessions[1].isListening
  /\ ~InLog("session.stop")
  /\ recognitionService = 0


\* the debounce timers of session s that are pending
PendingOf(s) == {t \in timers : t.sid = s}

\* C27: a Session has at most one pending debounce timer, the one whose id
\* it keeps in debounceTimeout; after a final result the pending timer is
\* the one of that result.
C27_OnePendingTimer ==
  /\ \A s \in 1..Len(sessions) :
       /\ Cardinality(PendingOf(s)) <= 1
       /\ \A t \in PendingOf(s) : t.id = sessions[s].debounceTimeout
  /\ (event.op = "engine:result" /\ event.isFinal)
       => \E t \in timers : PendingOf(event.sid) = {t} /\ t.id = Len(results)

\* a final result arrived while the timer of the previous final result was
\* pending, and only its own timer is pending now
C27_Witness ==
  /\ event.op = "engine:result"
  /\ event.isFinal
  /\ Len(results) = 2
  /\ results[2].sid = results[1].sid
  /\ results[2].gap < DEBOUNCE_DELAY
  /\ Cardinality(timers) = 1
  /\ \A t \in timers : t.id = 2


\* the Sessions that hold an engine handle: constructed and not destroyed
AliveSessions == {s \in 1..Len(sessions) : sessions[s].recognition}

\* C28: at most one Session is alive at any time, and it is the one the
\* Controller refers to.
C28_OneSessionAlive ==
  /\ Cardinality(AliveSessions) <= 1
  /\ \A s \in AliveSessions : recognitionService = s

\* two Sessions are alive and wired to the Controller, which refers to the
\* second; both engines are running
C28_TwoEnginesRunning ==
  /\ Cardinality(AliveSessions) = 2
  /\ recognitionService = 2
  /\ sessions[1].onResultCallback
  /\ sessions[1].engine.state = "running"
  /\ sessions[2].engine.state = "running"


\* C29: no step in which a startListening() or toggleListening() call
\* reaches the Session's start() invokes the start of an engine that is
\* already started, and none appends to status.errors.
C29_StartReentrantSafe ==
  [][InLog("session.start")'
       => /\ ~InLog("engine.start.threw")'
          /\ status'.errors = status.errors]_vars

\* a second call, made before the engine's start signal, invoked the
\* engine's start again and the aborted error was logged
C29_SecondStartLogged ==
  /\ event.op \in {"startListening", "toggleListening"}
  /\ InLog("engine.start.threw")
  /\ sessions[recognitionService].engine.state = "starting"
  /\ status.errors # <<>>
  /\ status.errors[Len(status.errors)].type = "aborted"


\* C30: a destroy() of a Controller whose Session's engine was started, with
\* its start signal observed or not, invokes the engine's stop() and leaves
\* the engine stopping.
C30_DestroyStopsEngine ==
  [][(/\ event'.op = "destroy"
      /\ recognitionService # 0
      /\ sessions[recognitionService].engine.state \in {"starting", "running"})
       => /\ InLog("engine.stop")'
          /\ sessions'[recognitionService].engine.state = "stopping"]_vars

\* the engine of a destroyed Session is recognizing, and the Controller has
\* no Session to stop it through
C30_LeftRecognizing ==
  /\ recognitionService = 0
  /\ ~isInitialized
  /\ \E s \in 1..Len(sessions) :
       /\ ~sessions[s].recognition
       /\ sessions[s].engine.state = "running"


\* C31: on the restrictive platform the continuous flag of every Session's
\* engine is off in every state.
C31_OverrideIsHard ==
  platform.isIOS => \A s \in 1..Len(sessions) : ~sessions[s].engine.continuous

\* on the restrictive platform setContinuous(true) has switched the
\* continuous flag of the live engine on
C31_OverrideUndone ==
  /\ platform.isIOS
  /\ event.op = "setContinuous"
  /\ event.continuous
  /\ recognitionService # 0
  /\ sessions[recognitionService].engine.continuous
  /\ ~sessions[recognitionService].engine.interimResults


\* C32: on a platform that is not restrictive, while the Controller is
\* initialized the continuous flag of its Session's engine equals
\* config.continuous.
C32_EngineFollowsConfig ==
  (~platform.isIOS /\ isInitialized /\ recognitionService # 0)
    => sessions[recognitionService].engine.continuous = config.continuous

\* initialize() has constructed the Session of a Controller whose
\* config.continuous was off before initialize(), and the engine's
\* continuous flag is on
C32_PreferenceIgnored ==
  /\ ~platform.isIOS
  /\ InLog("new Session")
  /\ isInitialized
  /\ ~config.continuous
  /\ sessions[recognitionService].engine.continuous


\* C33: status.isListening goes from false to true only in the step that
\* handles an engine's start signal; no step of an operation of the
\* Controller sets it.
C33_ListeningOnlyFromEngine ==
  [][(~status.isListening /\ status'.isListening)
       => /\ event'.op = "engine:start"
          /\ sessions[event'.sid].onStartCallback]_vars

\* the engine's start signal arrived after a startListening() call had
\* returned with the status still not listening, and the status listener
\* was told that the Controller is listening
C33_Witness ==
  /\ event.op = "engine:start"
  /\ event.sid = recognitionService
  /\ status.isListening
  /\ sessions[recognitionService].engine.state = "running"
  /\ \E i \in 1..Len(fired) : fired[i].kind = "status" /\ fired[i].payload.isListening


\* C34: a step that handles an interim result leaves every pending timer,
\* with the time it has run, every Session's debounceTimeout and
\* lastFinalResult, and the final results emitted so far as they were; it
\* hands the interim result out and nothing else.
C34_InterimLeavesDebounce ==
  [][(event'.op = "engine:result" /\ ~event'.isFinal)
       => /\ timers' = timers
          /\ sessions' = sessions
          /\ emitted' = emitted
          /\ results' = results
          /\ \A i \in 1..Len(fired') : ~fired'[i].payload.isFinal]_vars

\* an interim result arrived half-way through the quiet window of a pending
\* final result, after an earlier final result had been recorded
C34_Witness ==
  /\ event.op = "engine:result"
  /\ ~event.isFinal
  /\ SessionResults # <<>>
  /\ \E t \in timers :
       /\ t.sid = event.sid
       /\ t.elapsed = Tick
       /\ t.id = sessions[t.sid].debounceTimeout
  /\ sessions[event.sid].lastFinalResult # <<>>


\* the last step was no step of a startListening() call
NoStartStep ==
  event.op \notin {"startListening", "resolve:probe", "resolve:getUserMedia",
                   "resolve:audioInit"}

\* C35: after a stopListening() call that found the engine started and that
\* no step of a startListening() call follows, status.isListening is
\* eventually false for good.
C35_StopNeverLost ==
  []((event.op = "stopListening" /\ event.was \in {"starting", "running", "stopping"})
       => (<>(~NoStartStep) \/ <>[](~status.isListening)))

\* stopListening() was called while the engine was starting; the engine's
\* start signal arrived afterwards and the Controller is listening, with the
\* engine running and no stop requested
C35_StopLost ==
  /\ event.op = "engine:start"
  /\ status.isListening
  /\ sessions[recognitionService].engine.state = "running"
  /\ \A p \in Calls : calls[p].pc = "idle"


\* the last step resumed an initialize() or startListening() call that was
\* suspended when destroy() was called
ResumedAfterDestroy ==
  /\ event.op \in {"resolve:probe", "resolve:getUserMedia", "resolve:audioInit"}
  /\ event.began < epoch

\* C36: a step that resumes a call that was in flight when destroy() was
\* called constructs no Session, does not make the Controller initialized,
\* does not invoke the engine's start() and appends nothing to
\* status.errors.
C36_DestroyIsFinal ==
  [][ResumedAfterDestroy'
       => /\ ~InLog("new Session")'
          /\ sessions' = sessions
          /\ recognitionService' = recognitionService
          /\ isInitialized' = isInitialized
          /\ status'.isInitialized = status.isInitialized
          /\ ~InLog("engine.start")'
          /\ status'.errors = status.errors]_vars

\* an initialize() that was awaiting the permission probe when destroy() was
\* called has made the destroyed Controller initialized again, with a new
\* Session
C36_Resurrected ==
  /\ ResumedAfterDestroy
  /\ event.op = "resolve:probe"
  /\ InLog("new Session")
  /\ isInitialized
  /\ recognitionService # 0

\* a startListening() that was awaiting the permission prompt when destroy()
\* was called has called start() on the released Session, logged
\* service-not-allowed and thrown
C36_StartOnReleased ==
  /\ ResumedAfterDestroy
  /\ event.op = "resolve:audioInit"
  /\ InLog("throw:start")
  /\ recognitionService = 0
  /\ status.errors # <<>>
  /\ status.errors[Len(status.errors)].type = "service-not-allowed"


\* the final results emitted before the last step
EmittedBefore == SelectSeq(emitted, LAMBDA e : e.src # event.id)

\* the debounce timer that expired in the last step held the raw transcript
\* of the final result emitted last before it
SameRawAgain ==
  /\ event.op = "timer"
  /\ EmittedBefore # <<>>
  /\ EmittedBefore[Len(EmittedBefore)].raw = event.transcript

\* C37: within one listening session, when the debounce timer expires for
\* the raw transcript whose final result was the last one emitted, the
\* delivery is suppressed: no result is handed out and nothing is emitted,
\* whatever lead-in the transcript begins with.
C37_RepeatSuppressed ==
  SameRawAgain
    => /\ InLog("suppressed")
       /\ fired = <<>>
       /\ emitted = EmittedBefore

\* "скажи мне сколько будет два плюс два" was emitted twice in a row
C37_LeadInEmittedTwice ==
  /\ SameRawAgain
  /\ event.transcript = T_SkazhiMneSkolko
  /\ Len(emitted) = 2
  /\ emitted[2].src = event.id
  /\ emitted[1].result.transcript = emitted[2].result.transcript

\* C37, the part that holds: a repeated transcript that begins with "скажи"
\* or "мне" alone, not with "скажи мне", is suppressed.
C37_ShortLeadInSuppressed ==
  (SameRawAgain /\ event.transcript # T_SkazhiMneSkolko)
    => /\ InLog("suppressed")
       /\ fired = <<>>
       /\ emitted = EmittedBefore

\* "скажи привет" was delivered again and suppressed
C37_ShortLeadInWitness ==
  /\ SameRawAgain
  /\ event.transcript = T_SkazhiPrivet
  /\ InLog("suppressed")

=============================================================================
